---- MODULE Spec2Model ----
(***************************************************************************)
(* Volume-alert monitor of src/alert.py (StockVolumeMonitor): the tracked  *)
(* list, the destination list, the per-instrument volume history, the      *)
(* monitor loop with its suspension points, the alert broadcast and the    *)
(* chat commands that mutate the shared lists while the loop is suspended. *)
(* A last part models the whitelist file whitelist.json as it is written   *)
(* and read by the bot of src/haha.py and by the utility src/whitelist.py. *)
(*                                                                         *)
(* Time is counted in seconds since midnight, Asia/Jakarta wall clock.     *)
(* A float is modelled as an exact rational [num, den] with den > 0, so    *)
(* comparisons are exact cross-multiplications (no rounding error).        *)
(* An instrument code is a tuple of one-character strings, so that         *)
(* str.upper(), str.endswith() and += are computed, not assumed.           *)
(***************************************************************************)
EXTENDS Integers, Sequences, FiniteSets, TLC

\* ------------------------------------------------------------------ bounds

\* Polling cycles the loop may start.
MaxCycles == 2
\* Samples the Sample Source may deliver in a run (the other calls fail or are empty).
MaxSamples == 2
\* Chat commands handled in a run.
MaxCmds == 2
\* Longest history enumerated for the function-level specification.
MaxHist == 3
\* Exceptions raised in the loop outside the per-instrument handler.
MaxFailures == 1
\* Operations on the whitelist file (bot commands, utility invocations).
MaxWlOps == 3

\* The wall clock when the process starts (08:55:00), five minutes before the session.
StartTime == 32100
\* The clock may not pass the end of the modelled time (16:10:00, ten minutes
\* after the session has closed).
MaxTime == 58200

\* Extra seconds a sleep may take beyond its interval.  The loop specification
\* wakes on time; the function-level specification enumerates the ages of entries.
Lateness == {0}

\* Volumes the Sample Source delivers in the loop specification.
Volumes == {0, 95000}

\* The instruments tracked at construction (a short stand-in for the list of
\* alert.py lines 50-159, which is duplicate-free and normalised).
InitStocks == << <<"A", ".", "J", "K">>, <<"B", ".", "J", "K">> >>

\* Chats that issue commands: one group (negative id) and one private chat.
Chats == {-100, 7}
\* Users that issue commands: 1 is an admin, 2 is not.
Users == {1, 2}
\* context.args of add_stock / remove_stock commands.
StockArgs == { << <<"a">> >>, << <<"c", ".", "j", "k">> >> }

\* ------------------------------------------------------- program constants

admin_ids == {1}
trading_start == 9
trading_end == 16
volume_threshold == [num |-> 2, den |-> 1]
monitoring_interval == 60
avg_window_minutes == 120
\* await asyncio.sleep(300) while the session is closed
ClosedSleep == 300
\* await asyncio.sleep(60) of the handler of line 689
BackoffSleep == 60
\* timedelta(hours=4): the retention horizon
RetentionHours == 4
\* the absolute floor of should_alert
MinAbsoluteVolume == 90000

\* ------------------------------------------------------------------ state

VARIABLES
    popular_stocks,    \* self.popular_stocks: the tracked list
    monitored_groups,  \* self.monitored_groups: the destination list
    stock_data,        \* self.stock_data: symbol -> latest sample
    volume_history,    \* self.volume_history: symbol -> list of <<timestamp, volume>>
    now,               \* the wall clock
    pc,                \* where monitor_stocks is: "gate", "sleep_closed", "for", "send",
                       \* "sleep_interval", "backoff" (the sleep of line 691), "ended"
    it,                \* index of the list iterator of `for symbol in self.popular_stocks`
    git,               \* index of the list iterator of `for group_id in self.monitored_groups`
    cur,               \* locals of the loop body while an alert is being sent
    reply,             \* what the last command answered its caller
    sva_return,        \* what send_volume_alert handed back to its caller
    error_log,         \* logger.error records of the last broadcast: <<destination, error>>
    snapshot,          \* history: the tracked list when the current cycle started
    processed,         \* history: the symbols the loop body ran for in the current cycle
    bdests,            \* history: the destination list when the last broadcast started
    attempts,          \* history: deliveries of the last broadcast, [dest, ok]
    alert,             \* history: the last alert event and how many were dispatched
    monitor_task,      \* the task of run(): was cancel() called, and how it stands
    failed,            \* history: the symbols get_stock_data gave nothing for in the current cycle
    failures,          \* history: exceptions that reached the handler of line 689
    cycles, samples, cmds, \* counters for the bounds
    fn_pc, fn_in, fn_out,  \* function-level specification: which function ran, on what, its result
    whitelist_json,    \* the file whitelist.json: <<>> when absent, else << the JSON object >>
    whitelisted_users, \* haha.py: self.whitelisted_users
    whitelisted_groups, \* haha.py: self.whitelisted_groups
    whitelist_enabled, \* haha.py: self.whitelist_enabled
    manager_data,      \* whitelist.py: self.data of the last WhitelistManager, <<>> before the first
    wl_last,           \* history: who touched the file last, by which operation of the
                       \* utility, the error it ended in, the value it returned and
                       \* the issues validate_whitelist printed
    wl_reply,          \* history: the last command the bot of haha.py handled and its answer
    wl_ops             \* counter for the bound; also the clock of the metadata time stamps

vars == << popular_stocks, monitored_groups, stock_data, volume_history, now, pc, it, git,
           cur, reply, sva_return, error_log, snapshot, processed, bdests, attempts, alert,
           monitor_task, failed, failures, cycles, samples, cmds, fn_pc, fn_in, fn_out,
           whitelist_json, whitelisted_users, whitelisted_groups, whitelist_enabled,
           manager_data, wl_last, wl_reply, wl_ops >>

fnVars == << fn_pc, fn_in, fn_out >>

wlVars == << whitelist_json, whitelisted_users, whitelisted_groups, whitelist_enabled,
            manager_data, wl_last, wl_reply, wl_ops >>

\* What the monitor loop and the commands of alert.py never touch.
otherVars == << fnVars, wlVars >>

\* What an action of the monitor loop leaves alone unless it says otherwise.
taskVars == << monitor_task, failed, failures >>

progVars == << popular_stocks, monitored_groups, stock_data, volume_history, now, pc, it, git,
               cur, reply, sva_return, error_log, snapshot, processed, bdests, attempts,
               alert, monitor_task, failed, failures, cycles, samples, cmds >>

loopVars == << stock_data, volume_history, now, pc, it, git, cur, sva_return, error_log,
               snapshot, processed, bdests, attempts, alert, monitor_task, failed, failures,
               cycles, samples, otherVars >>

\* ------------------------------------------------------------- arithmetic

\* The value 0 that calculate_average_volume returns when there is no baseline.
Zero == [num |-> 0, den |-> 1]

\* a / b for an integer a and a rational b # 0, with a positive denominator.
RatDiv(a, b) ==
    IF b.num > 0 THEN [num |-> a * b.den, den |-> b.num]
                 ELSE [num |-> -(a * b.den), den |-> -(b.num)]

\* a >= b for rationals with positive denominators.
RatGeq(a, b) == a.num * b.den >= b.num * a.den

\* f"{x:.1f}" of line 625: the rational rounded to tenths, as a number of
\* tenths (x >= 0 and finite).
Tenths(x) == (20 * x.num + x.den) \div (2 * x.den)

RECURSIVE SumVolumes(_)
SumVolumes(vols) == IF vols = <<>> THEN 0 ELSE Head(vols) + SumVolumes(Tail(vols))

\* np.mean of a non-empty list of volumes.
Mean(vols) == [num |-> SumVolumes(vols), den |-> Len(vols)]

\* ---------------------------------------------------------------- strings

ToUpper(c) ==
    CASE c = "a" -> "A" [] c = "b" -> "B" [] c = "c" -> "C"
      [] c = "j" -> "J" [] c = "k" -> "K" [] OTHER -> c

\* str.upper()
Upper(s) == [i \in 1..Len(s) |-> ToUpper(s[i])]

\* str.endswith(suffix)
EndsWith(s, suffix) ==
    /\ Len(s) >= Len(suffix)
    /\ SubSeq(s, Len(s) - Len(suffix) + 1, Len(s)) = suffix

\* The normalisation without the upper() of lines 508 and 525.
NormaliseCodeKeepsCase(arg) ==
    IF EndsWith(arg, <<".", "J", "K">>) THEN arg
    ELSE arg \o <<".", "J", "K">>

\* stock_code = context.args[0].upper(); if not endswith('.JK'): stock_code += '.JK'
NormaliseCode(arg) ==
    LET stock_code == Upper(arg)
    IN IF EndsWith(stock_code, <<".", "J", "K">>) THEN stock_code
       ELSE stock_code \o <<".", "J", "K">>

\* x in list
InList(list, x) == \E i \in 1..Len(list) : list[i] = x

\* list.remove(x): the list without the first occurrence of x
RECURSIVE ListRemove(_, _)
ListRemove(list, x) ==
    IF list = <<>> THEN <<>>
    ELSE IF Head(list) = x THEN Tail(list)
    ELSE <<Head(list)>> \o ListRemove(Tail(list), x)

\* ------------------------------------------------------------ session gate

\* is_trading_hours with <= where line 551 has < at the end of the session.
IsTradingHoursInclusive(t) ==
    LET hour == (t \div 3600) % 24
    IN trading_start <= hour /\ hour <= trading_end

\* is_trading_hours: trading_start <= now.hour < trading_end, for the reading t
\* of the Asia/Jakarta wall clock (seconds since midnight; .hour of line 551).
IsTradingHours(t) ==
    LET hour == (t \div 3600) % 24
    IN trading_start <= hour /\ hour < trading_end

\* ----------------------------------------------------------- history store

\* The list a defaultdict(list) gives for a key (without inserting it).
HistoryOf(vh, symbol) == IF symbol \in DOMAIN vh THEN vh[symbol] ELSE <<>>

Volume(entry) == entry[2]
Timestamp(entry) == entry[1]

VolumesOf(history) == [i \in 1..Len(history) |-> Volume(history[i])]

\* The history from its first entry recorded at or after cutoff_time on.
RECURSIVE DropLeadingOld(_, _)
DropLeadingOld(history, cutoff_time) ==
    IF history = <<>> THEN <<>>
    ELSE IF Timestamp(Head(history)) >= cutoff_time THEN history
    ELSE DropLeadingOld(Tail(history), cutoff_time)

\* Lines 663-671 if the pruning dropped entries from the front up to the first
\* one inside the horizon (a pruning that relies on sorted timestamps).
AppendAndPruneFromFront(vh, symbol, current_time, volume) ==
    LET appended == Append(HistoryOf(vh, symbol), <<current_time, volume>>)
        cutoff_time == current_time - RetentionHours * 3600
    IN (symbol :> DropLeadingOld(appended, cutoff_time)) @@ vh

\* lines 663-664 without the pruning of lines 667-671.
AppendWithoutPrune(vh, symbol, current_time, volume) ==
    (symbol :> Append(HistoryOf(vh, symbol), <<current_time, volume>>)) @@ vh

\* monitor_stocks lines 663-671: append (current_time, volume), then keep the
\* entries with ts >= current_time - 4 hours.
AppendAndPrune(vh, symbol, current_time, volume) ==
    LET appended == Append(HistoryOf(vh, symbol), <<current_time, volume>>)
        cutoff_time == current_time - RetentionHours * 3600
        kept == SelectSeq(appended, LAMBDA e : Timestamp(e) >= cutoff_time)
    IN (symbol :> kept) @@ vh

\* calculate_average_volume without the len(history) < 2 guard of lines 586-587.
CalculateAverageVolumeNoMinimum(vh, symbol, t, window_minutes) ==
    IF symbol \notin DOMAIN vh THEN Zero
    ELSE LET history == vh[symbol]
             cutoff_time == t - window_minutes * 60
             recent == SelectSeq(history, LAMBDA e : Timestamp(e) >= cutoff_time)
         IN IF recent = <<>> THEN Zero
            ELSE Mean(VolumesOf(recent))

\* calculate_average_volume with > where line 593 has >=.
CalculateAverageVolumeStrict(vh, symbol, t, window_minutes) ==
    IF symbol \notin DOMAIN vh THEN Zero
    ELSE LET history == vh[symbol]
         IN IF Len(history) < 2 THEN Zero
            ELSE LET cutoff_time == t - window_minutes * 60
                     recent == SelectSeq(history, LAMBDA e : Timestamp(e) > cutoff_time)
                 IN IF recent = <<>> THEN Zero
                    ELSE Mean(VolumesOf(recent))

\* calculate_average_volume, with the clock reading and the window passed in.
CalculateAverageVolume(vh, symbol, t, window_minutes) ==
    IF symbol \notin DOMAIN vh THEN Zero
    ELSE LET history == vh[symbol]
         IN IF Len(history) < 2 THEN Zero
            ELSE LET cutoff_time == t - window_minutes * 60
                     recent == SelectSeq(history, LAMBDA e : Timestamp(e) >= cutoff_time)
                 IN IF recent = <<>> THEN Zero
                    ELSE Mean(VolumesOf(recent))

\* ---------------------------------------------------------------- detector

\* should_alert without the floor of lines 604-605.
ShouldAlertEvalNoFloor(vh, symbol, current_volume, t, window_minutes, threshold) ==
    LET avg_volume == CalculateAverageVolume(vh, symbol, t, window_minutes)
    IN IF avg_volume.num = 0
       THEN [result |-> FALSE, divided |-> FALSE, divisor |-> Zero]
       ELSE LET volume_ratio == RatDiv(current_volume, avg_volume)
            IN [result |-> RatGeq(volume_ratio, threshold), divided |-> TRUE,
                divisor |-> avg_volume]

\* should_alert without the zero-average guard of lines 609-610: x / 0 is inf.
ShouldAlertEvalUnguarded(vh, symbol, current_volume, t, window_minutes, threshold) ==
    IF current_volume < MinAbsoluteVolume
    THEN [result |-> FALSE, divided |-> FALSE, divisor |-> Zero]
    ELSE LET avg_volume == CalculateAverageVolume(vh, symbol, t, window_minutes)
         IN [result |-> current_volume * avg_volume.den * threshold.den
                            >= threshold.num * avg_volume.num,
             divided |-> TRUE, divisor |-> avg_volume]

\* should_alert with > where line 613 has >=.
ShouldAlertEvalStrict(vh, symbol, current_volume, t, window_minutes, threshold) ==
    IF current_volume < MinAbsoluteVolume
    THEN [result |-> FALSE, divided |-> FALSE, divisor |-> Zero]
    ELSE LET avg_volume == CalculateAverageVolume(vh, symbol, t, window_minutes)
         IN IF avg_volume.num = 0
            THEN [result |-> FALSE, divided |-> FALSE, divisor |-> Zero]
            ELSE LET volume_ratio == RatDiv(current_volume, avg_volume)
                 IN [result |-> ~RatGeq(threshold, volume_ratio), divided |-> TRUE,
                     divisor |-> avg_volume]

\* should_alert: the decision, whether the division of line 612 was executed,
\* and its divisor.
ShouldAlertEval(vh, symbol, current_volume, t, window_minutes, threshold) ==
    IF current_volume < MinAbsoluteVolume
    THEN [result |-> FALSE, divided |-> FALSE, divisor |-> Zero]
    ELSE LET avg_volume == CalculateAverageVolume(vh, symbol, t, window_minutes)
         IN IF avg_volume.num = 0
            THEN [result |-> FALSE, divided |-> FALSE, divisor |-> Zero]
            ELSE LET volume_ratio == RatDiv(current_volume, avg_volume)
                 IN [result |-> RatGeq(volume_ratio, threshold), divided |-> TRUE,
                     divisor |-> avg_volume]

ShouldAlert(vh, symbol, current_volume, t, window_minutes, threshold) ==
    ShouldAlertEval(vh, symbol, current_volume, t, window_minutes, threshold).result

\* ------------------------------------------------------------- loop body

\* The ratio of an iteration that sent no alert.
NoRatio == [num |-> 0, den |-> 1]

\* The loop body if it evaluated the ratio before it appended the fresh
\* sample: the decision and the ratio come from the history as it was found.
MonitorStepDecidesBeforeAppend(vh, symbol, volume, t1, t2, t3, window_minutes, threshold) ==
    LET vh2 == AppendAndPrune(vh, symbol, t1, volume)
        fire == ShouldAlert(vh, symbol, volume, t2, window_minutes, threshold)
        avg_volume == CalculateAverageVolume(vh, symbol, t3, window_minutes)
    IN [vh |-> vh2,
        fire |-> fire,
        avg_volume |-> IF fire THEN avg_volume ELSE Zero,
        volume_ratio |-> IF ~fire THEN NoRatio
                         ELSE IF avg_volume.num = 0 THEN [num |-> volume, den |-> 0]
                         ELSE RatDiv(volume, avg_volume)]

\* monitor_stocks lines 663-679 for one obtained sample: the history after the
\* append and prune, the alert decision, and the ratio handed to
\* send_volume_alert (computed from a second call of calculate_average_volume).
\* t1, t2, t3 are the three clock readings (lines 663, 590 and 590 again).
MonitorStep(vh, symbol, volume, t1, t2, t3, window_minutes, threshold) ==
    LET vh2 == AppendAndPrune(vh, symbol, t1, volume)
        fire == ShouldAlert(vh2, symbol, volume, t2, window_minutes, threshold)
        avg_volume == CalculateAverageVolume(vh2, symbol, t3, window_minutes)
    IN [vh |-> vh2,
        fire |-> fire,
        avg_volume |-> IF fire THEN avg_volume ELSE Zero,
        volume_ratio |-> IF ~fire THEN NoRatio
                         ELSE IF avg_volume.num = 0 THEN [num |-> volume, den |-> 0]
                         ELSE RatDiv(volume, avg_volume)]

\* ------------------------------------------------ the variant of haha.py

\* haha.py monitor_stocks lines 553-561: append (current_time, volume), then
\* keep the entries with ts >= current_time - 4 hours.
HahaAppendAndPrune(vh, symbol, current_time, volume) ==
    LET appended == Append(HistoryOf(vh, symbol), <<current_time, volume>>)
        cutoff_time == current_time - 4 * 3600
        kept == SelectSeq(appended, LAMBDA e : Timestamp(e) >= cutoff_time)
    IN (symbol :> kept) @@ vh

\* haha.py calculate_average_volume (lines 474-493), with the clock reading
\* and the window passed in.
HahaCalculateAverageVolume(vh, symbol, t, window_minutes) ==
    IF symbol \notin DOMAIN vh THEN Zero
    ELSE LET history == vh[symbol]
         IN IF Len(history) < 2 THEN Zero
            ELSE LET cutoff_time == t - window_minutes * 60
                     recent == SelectSeq(history, LAMBDA e : Timestamp(e) >= cutoff_time)
                 IN IF recent = <<>> THEN Zero
                    ELSE Mean(VolumesOf(recent))

\* haha.py should_alert (lines 495-503): the average, the zero-average guard
\* and the comparison with the threshold; there is no test of the volume
\* against a minimum.
HahaShouldAlert(vh, symbol, current_volume, t, window_minutes, threshold) ==
    LET avg_volume == HahaCalculateAverageVolume(vh, symbol, t, window_minutes)
    IN IF avg_volume.num = 0 THEN FALSE
       ELSE LET volume_ratio == RatDiv(current_volume, avg_volume)
            IN RatGeq(volume_ratio, threshold)

\* haha.py monitor_stocks lines 553-569 for one obtained sample: the history
\* after the append and prune, and the alert decision.
HahaMonitorStep(vh, symbol, volume, t1, t2, window_minutes, threshold) ==
    LET vh2 == HahaAppendAndPrune(vh, symbol, t1, volume)
    IN [vh |-> vh2,
        fire |-> HahaShouldAlert(vh2, symbol, volume, t2, window_minutes, threshold)]

\* ----------------------------------------------------------------- initial

\* send_volume_alert as its caller sees it.  The function has no return
\* statement: when it returns, the caller receives None.
NotCalled == [state |-> "not called", value |-> "nothing"]
Running == [state |-> "running", value |-> "nothing"]
Returned == [state |-> "returned", value |-> "None"]
Raised == [state |-> "raised", value |-> "Exception"]

\* monitor_task (run, line 700): whether cancel() was called on it, and whether
\* it is still pending, ended cancelled, or ended with an exception.
Pending == [cancel |-> FALSE, state |-> "pending"]
Cancelled == [cancel |-> TRUE, state |-> "cancelled"]

NoCur == [symbol |-> <<>>, data |-> "none", group_id |-> 0]
NoAlert == [count |-> 0, event |-> "none"]

\* No command was handled yet by the running bot of haha.py.
NoReply == [n |-> 0, cmd |-> "none", user_id |-> 0, chat_id |-> 0, text |-> "none"]

\* haha.py lines 32-37 on a machine without whitelist.json: empty sets, the
\* whitelist enabled, nothing loaded; the utility has not run yet.
InitWl ==
    /\ whitelist_json = <<>>
    /\ whitelisted_users = {}
    /\ whitelisted_groups = {}
    /\ whitelist_enabled = TRUE
    /\ manager_data = <<>>
    /\ wl_last = [by |-> "none", op |-> "none", error |-> "none", returned |-> "none",
                  issues |-> {}]
    /\ wl_reply = NoReply
    /\ wl_ops = 0

Init ==
    /\ popular_stocks = InitStocks
    /\ monitored_groups = <<>>
    /\ stock_data = <<>>
    /\ volume_history = <<>>
    /\ now = StartTime
    /\ pc = "gate"
    /\ it = 0
    /\ git = 0
    /\ cur = NoCur
    /\ reply = "none"
    /\ sva_return = NotCalled
    /\ error_log = <<>>
    /\ snapshot = <<>>
    /\ processed = <<>>
    /\ bdests = <<>>
    /\ attempts = <<>>
    /\ alert = NoAlert
    /\ monitor_task = Pending
    /\ failed = {}
    /\ failures = 0
    /\ cycles = 0
    /\ samples = 0
    /\ cmds = 0
    /\ fn_pc = "off"
    /\ fn_in = "none"
    /\ fn_out = "none"
    /\ InitWl

\* ------------------------------------------------------------ monitor loop

\* lines 648-650: outside trading hours the loop goes to sleep 300 seconds.
GateClosed ==
    /\ pc = "gate"
    /\ ~IsTradingHours(now)
    /\ pc' = "sleep_closed"
    /\ UNCHANGED << popular_stocks, monitored_groups, stock_data, volume_history, now, it,
                    git, cur, reply, sva_return, error_log, snapshot, processed, bdests,
                    attempts, alert, cycles, samples, cmds >>
    /\ UNCHANGED taskVars
    /\ UNCHANGED otherVars

\* lines 650-651: asyncio.sleep(300) returns; `continue` leads back to the gate.
WakeClosed ==
    /\ pc = "sleep_closed"
    /\ \E late \in Lateness :
         /\ now + ClosedSleep + late <= MaxTime
         /\ now' = now + ClosedSleep + late
    /\ pc' = "gate"
    /\ UNCHANGED << popular_stocks, monitored_groups, stock_data, volume_history, it, git,
                    cur, reply, sva_return, error_log, snapshot, processed, bdests,
                    attempts, alert, cycles, samples, cmds >>
    /\ UNCHANGED taskVars
    /\ UNCHANGED otherVars

\* lines 648-655: inside trading hours the for loop starts: iter(self.popular_stocks).
StartCycle ==
    /\ pc = "gate"
    /\ IsTradingHours(now)
    /\ cycles < MaxCycles
    /\ pc' = "for"
    /\ it' = 0
    /\ snapshot' = popular_stocks
    /\ processed' = <<>>
    /\ cycles' = cycles + 1
    /\ UNCHANGED << popular_stocks, monitored_groups, stock_data, volume_history, now, git,
                    cur, reply, sva_return, error_log, bdests, attempts, alert, samples,
                    cmds >>
    /\ failed' = {}
    /\ UNCHANGED << monitor_task, failures >>
    /\ UNCHANGED otherVars

\* line 655: the list iterator is exhausted (its index has reached the length
\* the list has now); line 687: the loop sleeps monitoring_interval.
LoopDone ==
    /\ pc = "for"
    /\ it >= Len(popular_stocks)
    /\ pc' = "sleep_interval"
    /\ UNCHANGED << popular_stocks, monitored_groups, stock_data, volume_history, now, it,
                    git, cur, reply, sva_return, error_log, snapshot, processed, bdests,
                    attempts, alert, cycles, samples, cmds >>
    /\ UNCHANGED taskVars
    /\ UNCHANGED otherVars

\* Line 687 if the loop went on with the for statement of line 655 without
\* passing the gate of line 648.
WakeIntervalSkipsGate ==
    /\ pc = "sleep_interval"
    /\ \E late \in Lateness :
         /\ now + monitoring_interval + late <= MaxTime
         /\ now' = now + monitoring_interval + late
    /\ pc' = "for"
    /\ it' = 0
    /\ UNCHANGED << popular_stocks, monitored_groups, stock_data, volume_history, git,
                    cur, reply, sva_return, error_log, snapshot, processed, bdests,
                    attempts, alert, cycles, samples, cmds >>
    /\ UNCHANGED taskVars
    /\ UNCHANGED otherVars

\* line 687: asyncio.sleep(self.monitoring_interval) returns; back to the gate.
WakeInterval ==
    /\ pc = "sleep_interval"
    /\ \E late \in Lateness :
         /\ now + monitoring_interval + late <= MaxTime
         /\ now' = now + monitoring_interval + late
    /\ pc' = "gate"
    /\ UNCHANGED << popular_stocks, monitored_groups, stock_data, volume_history, it, git,
                    cur, reply, sva_return, error_log, snapshot, processed, bdests,
                    attempts, alert, cycles, samples, cmds >>
    /\ UNCHANGED taskVars
    /\ UNCHANGED otherVars

\* The body of lines 659-682 if an empty result were stored as a sample of
\* volume 0 instead of being skipped.
SkipSymbolStoresZero ==
    /\ pc = "for"
    /\ it < Len(popular_stocks)
    /\ it' = it + 1
    /\ processed' = Append(processed, popular_stocks[it + 1])
    /\ volume_history' = AppendAndPrune(volume_history, popular_stocks[it + 1], now, 0)
    /\ stock_data' = (popular_stocks[it + 1] :> [symbol |-> popular_stocks[it + 1],
                                                 volume |-> 0]) @@ stock_data
    /\ failed' = failed \cup {popular_stocks[it + 1]}
    /\ UNCHANGED << popular_stocks, monitored_groups, now, pc, git, cur, reply, sva_return,
                    error_log, snapshot, bdests, attempts, alert, cycles, samples, cmds >>
    /\ UNCHANGED << monitor_task, failures >>
    /\ UNCHANGED otherVars

\* Lines 659-660 if a missing sample were raised to the handler of line 689
\* instead of being skipped.
SkipSymbolEscalates ==
    /\ pc = "for"
    /\ it < Len(popular_stocks)
    /\ it' = it + 1
    /\ processed' = Append(processed, popular_stocks[it + 1])
    /\ failed' = failed \cup {popular_stocks[it + 1]}
    /\ pc' = "backoff"
    /\ UNCHANGED << popular_stocks, monitored_groups, stock_data, volume_history, now,
                    git, cur, reply, sva_return, error_log, snapshot, bdests, attempts,
                    alert, cycles, samples, cmds >>
    /\ UNCHANGED << monitor_task, failures >>
    /\ UNCHANGED otherVars

\* lines 655-660: the iterator yields the element at its index; get_stock_data
\* returns None (an error or an empty frame); `continue`.
SkipSymbol ==
    /\ pc = "for"
    /\ it < Len(popular_stocks)
    /\ it' = it + 1
    /\ processed' = Append(processed, popular_stocks[it + 1])
    /\ UNCHANGED << popular_stocks, monitored_groups, stock_data, volume_history, now, pc,
                    git, cur, reply, sva_return, error_log, snapshot, bdests, attempts,
                    alert, cycles, samples, cmds >>
    /\ failed' = failed \cup {popular_stocks[it + 1]}
    /\ UNCHANGED << monitor_task, failures >>
    /\ UNCHANGED otherVars

\* lines 655-682: the iterator yields the element at its index and
\* get_stock_data returns a sample.  Without an alert the body runs to its end.
\* With an alert, send_volume_alert starts: it suspends in the first
\* send_message, or returns at once when no destination is registered.
TakeSample ==
    /\ pc = "for"
    /\ it < Len(popular_stocks)
    /\ samples < MaxSamples
    /\ \E volume \in Volumes :
         LET symbol == popular_stocks[it + 1]
             data == [symbol |-> symbol, volume |-> volume]
             step == MonitorStep(volume_history, symbol, volume, now, now, now,
                                 avg_window_minutes, volume_threshold)
         IN /\ it' = it + 1
            /\ processed' = Append(processed, symbol)
            /\ samples' = samples + 1
            /\ volume_history' = step.vh
            /\ IF ~step.fire
               THEN /\ stock_data' = (symbol :> data) @@ stock_data
                    /\ UNCHANGED << pc, git, cur, sva_return, error_log, bdests, attempts,
                                    alert >>
               ELSE /\ alert' = [count |-> alert.count + 1,
                                 event |-> [symbol |-> symbol, volume |-> volume,
                                            avg_volume |-> step.avg_volume,
                                            volume_ratio |-> step.volume_ratio]]
                    /\ bdests' = monitored_groups
                    /\ attempts' = <<>>
                    /\ error_log' = <<>>
                    /\ IF monitored_groups = <<>>
                       THEN /\ sva_return' = Returned
                            /\ stock_data' = (symbol :> data) @@ stock_data
                            /\ UNCHANGED << pc, git, cur >>
                       ELSE /\ sva_return' = Running
                            /\ pc' = "send"
                            /\ git' = 1
                            /\ cur' = [symbol |-> symbol, data |-> data,
                                       group_id |-> monitored_groups[1]]
                            /\ UNCHANGED stock_data
    /\ UNCHANGED << popular_stocks, monitored_groups, now, reply, snapshot, cycles, cmds >>
    /\ UNCHANGED taskVars
    /\ UNCHANGED otherVars

\* An `except Exception` clause that would also catch BaseException.
CatchesBaseException(exc) == TRUE

\* An `except Exception` clause that catches nothing.
CatchesNothing(exc) == FALSE

\* Whether an `except Exception` clause (lines 641, 684, 689) catches exc:
\* asyncio.CancelledError derives from BaseException, not from Exception.
Catches(exc) == exc # "CancelledError"

\* What an awaited call raises for an outcome other than "ok".
RaisedBy(outcome) == IF outcome = "cancelled" THEN "CancelledError" ELSE "Exception"

\* What becomes of a send_message that raised, with nothing to catch it.
DeliveryFlowUncaught(outcome) == IF outcome = "ok" THEN "next" ELSE "raise"

\* send_volume_alert lines 635-642: the try/except around send_message: a
\* delivery that raised is caught and logged, and the for loop goes on; a
\* CancelledError passes the handlers of lines 641, 684 and 689.
DeliveryFlow(outcome) ==
    IF outcome = "ok" THEN "next"
    ELSE IF Catches(RaisedBy(outcome)) THEN "caught"
    ELSE "cancel"

\* Lines 634-682 if line 682 were missing after a broadcast: the latest
\* state is not stored when send_volume_alert has returned.
SendDoneForgetsLatest ==
    /\ pc = "send"
    /\ \E outcome \in {"ok", "failed", "cancelled"} :
         LET flow == DeliveryFlow(outcome)
             attempt == [dest |-> cur.group_id, ok |-> outcome = "ok", pin |-> FALSE]
         IN IF flow = "cancel"
            THEN /\ pc' = "ended"
                 /\ monitor_task' = Cancelled
                 /\ UNCHANGED << attempts, sva_return, error_log, git, stock_data, cur >>
            ELSE /\ attempts' = Append(attempts, attempt)
                 /\ UNCHANGED monitor_task
                 /\ IF flow = "raise"
                    THEN /\ sva_return' = Raised
                         /\ pc' = "for"
                         /\ cur' = NoCur
                         /\ UNCHANGED << error_log, git, stock_data >>
                    ELSE /\ error_log' = IF flow = "caught"
                                         THEN Append(error_log, <<cur.group_id, "Exception">>)
                                         ELSE error_log
                         /\ IF git < Len(monitored_groups)
                            THEN /\ git' = git + 1
                                 /\ cur' = [cur EXCEPT !.group_id = monitored_groups[git + 1]]
                                 /\ UNCHANGED << pc, sva_return, stock_data >>
                            ELSE /\ sva_return' = Returned
                                 /\ UNCHANGED stock_data
                                 /\ pc' = "for"
                                 /\ cur' = NoCur
                                 /\ UNCHANGED git
    /\ UNCHANGED << popular_stocks, monitored_groups, volume_history, now, it, reply,
                    snapshot, processed, bdests, alert, cycles, samples, cmds >>
    /\ UNCHANGED << failed, failures >>
    /\ UNCHANGED otherVars

\* lines 634-642: the awaited send_message to cur.group_id completes, raises,
\* or the task is cancelled while it waits; then the list iterator over
\* self.monitored_groups yields the next destination, or is exhausted and
\* send_volume_alert returns (line 679), after which line 682 stores the latest
\* data.  An exception that leaves send_volume_alert is caught by line 684 and
\* the body is abandoned.  send_message is the only call of lines 635-640:
\* pin_chat_message is not called for any destination.
SendDone ==
    /\ pc = "send"
    /\ \E outcome \in {"ok", "failed", "cancelled"} :
         LET flow == DeliveryFlow(outcome)
             attempt == [dest |-> cur.group_id, ok |-> outcome = "ok", pin |-> FALSE]
         IN IF flow = "cancel"
            THEN /\ pc' = "ended"
                 /\ monitor_task' = Cancelled
                 /\ UNCHANGED << attempts, sva_return, error_log, git, stock_data, cur >>
            ELSE /\ attempts' = Append(attempts, attempt)
                 /\ UNCHANGED monitor_task
                 /\ IF flow = "raise"
                    THEN /\ sva_return' = Raised
                         /\ pc' = "for"
                         /\ cur' = NoCur
                         /\ UNCHANGED << error_log, git, stock_data >>
                    ELSE /\ error_log' = IF flow = "caught"
                                         THEN Append(error_log, <<cur.group_id, "Exception">>)
                                         ELSE error_log
                         /\ IF git < Len(monitored_groups)
                            THEN /\ git' = git + 1
                                 /\ cur' = [cur EXCEPT !.group_id = monitored_groups[git + 1]]
                                 /\ UNCHANGED << pc, sva_return, stock_data >>
                            ELSE /\ sva_return' = Returned
                                 /\ stock_data' = (cur.symbol :> cur.data) @@ stock_data
                                 /\ pc' = "for"
                                 /\ cur' = NoCur
                                 /\ UNCHANGED git
    /\ UNCHANGED << popular_stocks, monitored_groups, volume_history, now, it, reply,
                    snapshot, processed, bdests, alert, cycles, samples, cmds >>
    /\ UNCHANGED << failed, failures >>
    /\ UNCHANGED otherVars

\* The handler of line 689 without the sleep of line 691: the loop tries
\* again at once.
LoopErrorRetriesAtOnce ==
    /\ pc = "gate"
    /\ failures < MaxFailures
    /\ failures' = failures + 1
    /\ UNCHANGED << popular_stocks, monitored_groups, stock_data, volume_history, now, pc,
                    it, git, cur, reply, sva_return, error_log, snapshot, processed, bdests,
                    attempts, alert, monitor_task, failed, cycles, samples, cmds >>
    /\ UNCHANGED otherVars

\* lines 648-653 raise an exception (a statement of the outer try that is not
\* inside the per-instrument try): the handler of line 689 logs it and the loop
\* sleeps 60 seconds; an exception the clause does not catch ends the task.
LoopError ==
    /\ pc = "gate"
    /\ failures < MaxFailures
    /\ failures' = failures + 1
    /\ IF Catches("Exception")
       THEN /\ pc' = "backoff"
            /\ UNCHANGED monitor_task
       ELSE /\ pc' = "ended"
            /\ monitor_task' = [cancel |-> monitor_task.cancel, state |-> "exception"]
    /\ UNCHANGED << popular_stocks, monitored_groups, stock_data, volume_history, now, it,
                    git, cur, reply, sva_return, error_log, snapshot, processed, bdests,
                    attempts, alert, failed, cycles, samples, cmds >>
    /\ UNCHANGED otherVars

\* line 691: asyncio.sleep(60) returns; `while True` leads back to the gate.
WakeBackoff ==
    /\ pc = "backoff"
    /\ \E late \in Lateness :
         /\ now + BackoffSleep + late <= MaxTime
         /\ now' = now + BackoffSleep + late
    /\ pc' = "gate"
    /\ UNCHANGED << popular_stocks, monitored_groups, stock_data, volume_history, it, git,
                    cur, reply, sva_return, error_log, snapshot, processed, bdests,
                    attempts, alert, cycles, samples, cmds >>
    /\ UNCHANGED taskVars
    /\ UNCHANGED otherVars

\* monitor_task.cancel() while the loop waits in asyncio.sleep (lines 650, 687,
\* 691): the sleep raises CancelledError at once.  Lines 650 and 687 are inside
\* the try of line 647, whose handler (line 689) would back off if it caught
\* the exception; line 691 is inside no try.  Uncaught, the exception ends the
\* task and run() leaves `await monitor_task` (lines 708-712).
CancelSleep ==
    /\ pc \in {"sleep_closed", "sleep_interval", "backoff"}
    /\ ~monitor_task.cancel
    /\ LET caught == pc # "backoff" /\ Catches("CancelledError")
       IN IF caught
          THEN /\ pc' = "backoff"
               /\ monitor_task' = [cancel |-> TRUE, state |-> "pending"]
          ELSE /\ pc' = "ended"
               /\ monitor_task' = Cancelled
    /\ UNCHANGED << popular_stocks, monitored_groups, stock_data, volume_history, now, it,
                    git, cur, reply, sva_return, error_log, snapshot, processed, bdests,
                    attempts, alert, failed, failures, cycles, samples, cmds >>
    /\ UNCHANGED otherVars

\* ---------------------------------------------------------------- commands

\* A handler runs only while monitor_stocks is suspended in an await.
Suspended == pc \in {"sleep_closed", "send", "sleep_interval", "backoff"}

\* whitelist_required (the definition of lines 203-224, which replaces the one
\* of lines 163-190): an admin runs the command; for anyone else line 216 reads
\* self.whitelisted_users, which __init__ never sets, and raises AttributeError.
WhitelistRequired(user_id) ==
    IF user_id \in admin_ids THEN "run" ELSE "AttributeError"

\* start_command if it put the new chat at the head of the list
\* (insert(0, chat_id) where line 244 has append).
StartCommandInsertsFirst(user_id, chat_id) ==
    /\ Suspended
    /\ cmds < MaxCmds
    /\ cmds' = cmds + 1
    /\ IF WhitelistRequired(user_id) # "run"
       THEN /\ reply' = WhitelistRequired(user_id)
            /\ UNCHANGED monitored_groups
       ELSE IF ~InList(monitored_groups, chat_id)
            THEN /\ monitored_groups' = <<chat_id>> \o monitored_groups
                 /\ reply' = "activated"
            ELSE /\ reply' = "already active"
                 /\ UNCHANGED monitored_groups
    /\ UNCHANGED popular_stocks
    /\ UNCHANGED loopVars

\* start_command
StartCommand(user_id, chat_id) ==
    /\ Suspended
    /\ cmds < MaxCmds
    /\ cmds' = cmds + 1
    /\ IF WhitelistRequired(user_id) # "run"
       THEN /\ reply' = WhitelistRequired(user_id)
            /\ UNCHANGED monitored_groups
       ELSE IF ~InList(monitored_groups, chat_id)
            THEN /\ monitored_groups' = Append(monitored_groups, chat_id)
                 /\ reply' = "activated"
            ELSE /\ reply' = "already active"
                 /\ UNCHANGED monitored_groups
    /\ UNCHANGED popular_stocks
    /\ UNCHANGED loopVars

\* add_stock_command without the membership test of line 512.
AddStockCommandAllowsDuplicate(user_id, args) ==
    /\ Suspended
    /\ cmds < MaxCmds
    /\ cmds' = cmds + 1
    /\ IF WhitelistRequired(user_id) # "run"
       THEN /\ reply' = WhitelistRequired(user_id)
            /\ UNCHANGED popular_stocks
       ELSE IF args = <<>>
            THEN /\ reply' = "usage"
                 /\ UNCHANGED popular_stocks
            ELSE /\ popular_stocks' = Append(popular_stocks, NormaliseCode(args[1]))
                 /\ reply' = "added"
    /\ UNCHANGED monitored_groups
    /\ UNCHANGED loopVars

\* add_stock_command if it also created an empty history for the new code.
AddStockCommandSeedsHistory(user_id, args) ==
    /\ Suspended
    /\ cmds < MaxCmds
    /\ cmds' = cmds + 1
    /\ IF WhitelistRequired(user_id) # "run"
       THEN /\ reply' = WhitelistRequired(user_id)
            /\ UNCHANGED << popular_stocks, volume_history >>
       ELSE IF args = <<>>
            THEN /\ reply' = "usage"
                 /\ UNCHANGED << popular_stocks, volume_history >>
            ELSE LET stock_code == NormaliseCode(args[1])
                 IN IF ~InList(popular_stocks, stock_code)
                    THEN /\ popular_stocks' = Append(popular_stocks, stock_code)
                         /\ volume_history' = (stock_code :> <<>>) @@ volume_history
                         /\ reply' = "added"
                    ELSE /\ reply' = "already monitored"
                         /\ UNCHANGED << popular_stocks, volume_history >>
    /\ UNCHANGED monitored_groups
    /\ UNCHANGED << stock_data, now, pc, it, git, cur, sva_return, error_log, snapshot,
                    processed, bdests, attempts, alert, monitor_task, failed, failures,
                    cycles, samples, otherVars >>

\* add_stock_command
AddStockCommand(user_id, args) ==
    /\ Suspended
    /\ cmds < MaxCmds
    /\ cmds' = cmds + 1
    /\ IF WhitelistRequired(user_id) # "run"
       THEN /\ reply' = WhitelistRequired(user_id)
            /\ UNCHANGED popular_stocks
       ELSE IF args = <<>>
            THEN /\ reply' = "usage"
                 /\ UNCHANGED popular_stocks
            ELSE LET stock_code == NormaliseCode(args[1])
                 IN IF ~InList(popular_stocks, stock_code)
                    THEN /\ popular_stocks' = Append(popular_stocks, stock_code)
                         /\ reply' = "added"
                    ELSE /\ reply' = "already monitored"
                         /\ UNCHANGED popular_stocks
    /\ UNCHANGED monitored_groups
    /\ UNCHANGED loopVars

\* A mapping without the key given.
WithoutKey(f, key) == [k \in DOMAIN f \ {key} |-> f[k]]

\* remove_stock_command if it also deleted the history and the latest state
\* of the removed code.
RemoveStockCommandDropsHistory(user_id, args) ==
    /\ Suspended
    /\ cmds < MaxCmds
    /\ cmds' = cmds + 1
    /\ IF WhitelistRequired(user_id) # "run"
       THEN /\ reply' = WhitelistRequired(user_id)
            /\ UNCHANGED << popular_stocks, volume_history, stock_data >>
       ELSE IF args = <<>>
            THEN /\ reply' = "usage"
                 /\ UNCHANGED << popular_stocks, volume_history, stock_data >>
            ELSE LET stock_code == NormaliseCode(args[1])
                 IN IF InList(popular_stocks, stock_code)
                    THEN /\ popular_stocks' = ListRemove(popular_stocks, stock_code)
                         /\ volume_history' = WithoutKey(volume_history, stock_code)
                         /\ stock_data' = WithoutKey(stock_data, stock_code)
                         /\ reply' = "removed"
                    ELSE /\ reply' = "not monitored"
                         /\ UNCHANGED << popular_stocks, volume_history, stock_data >>
    /\ UNCHANGED monitored_groups
    /\ UNCHANGED << now, pc, it, git, cur, sva_return, error_log, snapshot, processed,
                    bdests, attempts, alert, monitor_task, failed, failures, cycles,
                    samples, otherVars >>

\* remove_stock_command
RemoveStockCommand(user_id, args) ==
    /\ Suspended
    /\ cmds < MaxCmds
    /\ cmds' = cmds + 1
    /\ IF WhitelistRequired(user_id) # "run"
       THEN /\ reply' = WhitelistRequired(user_id)
            /\ UNCHANGED popular_stocks
       ELSE IF args = <<>>
            THEN /\ reply' = "usage"
                 /\ UNCHANGED popular_stocks
            ELSE LET stock_code == NormaliseCode(args[1])
                 IN IF InList(popular_stocks, stock_code)
                    THEN /\ popular_stocks' = ListRemove(popular_stocks, stock_code)
                         /\ reply' = "removed"
                    ELSE /\ reply' = "not monitored"
                         /\ UNCHANGED popular_stocks
    /\ UNCHANGED monitored_groups
    /\ UNCHANGED loopVars

\* list_stocks_command
ListStocksCommand(user_id) ==
    /\ Suspended
    /\ cmds < MaxCmds
    /\ cmds' = cmds + 1
    /\ reply' = IF WhitelistRequired(user_id) # "run" THEN WhitelistRequired(user_id)
                ELSE IF popular_stocks = <<>> THEN "none monitored"
                ELSE "list"
    /\ UNCHANGED << popular_stocks, monitored_groups >>
    /\ UNCHANGED loopVars

\* status_command: line 488 evaluates the session gate for itself.
StatusCommand(user_id) ==
    /\ Suspended
    /\ cmds < MaxCmds
    /\ cmds' = cmds + 1
    /\ reply' = IF WhitelistRequired(user_id) # "run" THEN WhitelistRequired(user_id)
                ELSE LET hour == (now \div 3600) % 24
                     IN IF trading_start <= hour /\ hour < trading_end
                        THEN "status: open"
                        ELSE "status: closed"
    /\ UNCHANGED << popular_stocks, monitored_groups >>
    /\ UNCHANGED loopVars

\* The front end alone: the commands handled while the loop sleeps outside
\* the session (the process starts at 08:55, the first sleep lasts to 09:00).
\* Chats and arguments of the commands:
CmdChats == {-100, -200, 7, 8}
CmdArgs == StockArgs \cup { <<>>, << <<"b", ".", "J", "K">> >>, << <<"a", "b">> >> }

NextCmd ==
    \/ GateClosed
    \/ \E user_id \in Users, chat_id \in CmdChats : StartCommand(user_id, chat_id)
    \/ \E user_id \in Users, args \in CmdArgs : AddStockCommand(user_id, args)
    \/ \E user_id \in Users, args \in CmdArgs : RemoveStockCommand(user_id, args)
    \/ \E user_id \in Users : ListStocksCommand(user_id)
    \/ \E user_id \in Users : StatusCommand(user_id)

SpecCmd == Init /\ [][NextCmd]_vars

\* ------------------------------------------------- function-level inputs

\* The instrument the functions are applied to.
FnSymbol == <<"X", ".", "J", "K">>
\* The clock reading of the call (10:00:00).
FnNow == 36000
\* Ages (seconds before FnNow) of recorded entries: fresh, on and past the
\* boundary of a 60 and of a 120 minute window, past the retention horizon.
FnAges == {0, 3600, 7200, 7201, 14401}
\* Volumes of recorded entries.
FnHistVolumes == {0, 10000, 100000}
\* Volumes of the fresh sample.
FnFresh == {50000, 89999, 90000, 95000, 150000, 200000}
\* Configurations of avg_window_minutes and volume_threshold.
FnWindows == {60, 120, 240, 300}
FnThresholds == {[num |-> 2, den |-> 1], [num |-> 3, den |-> 2]}
\* Seconds between two clock readings of one loop body.
ReadDrift == {0, 1}

FnEntries == {<<FnNow - age, vol>> : age \in FnAges, vol \in FnHistVolumes}

\* The histories of at most n entries the loop can have built: timestamps are
\* clock readings of earlier appends, so non-decreasing and not after now.
RECURSIVE HistoriesUpTo(_)
HistoriesUpTo(n) ==
    IF n = 0 THEN {<<>>}
    ELSE LET shorter == HistoriesUpTo(n - 1)
             longest == {h \in shorter : Len(h) = n - 1}
             pairs == {p \in longest \X FnEntries :
                          Len(p[1]) = 0 \/ Timestamp(p[1][Len(p[1])]) <= Timestamp(p[2])}
         IN shorter \cup {Append(p[1], p[2]) : p \in pairs}

\* Three samples of the last few minutes with volumes 10000, 12000, 11000.
ScenarioHistory ==
    << <<FnNow - 180, 10000>>, <<FnNow - 120, 12000>>, <<FnNow - 60, 11000>> >>

\* Histories whose timestamps are not in order: datetime.now (line 663) reads
\* the wall clock, which can be set back between two appends.  Every pair of
\* entries with the later timestamp first, and one history of three entries.
OutOfOrderHistories ==
    {<<p[1], p[2]>> : p \in {q \in FnEntries \X FnEntries :
                                   Timestamp(q[2]) < Timestamp(q[1])}}
      \cup { << <<FnNow - 3600, 10000>>, <<FnNow - 14401, 100000>>, <<FnNow - 7200, 0>> >> }

\* A history whose first entry was recorded exactly 4 hours before FnNow.
HorizonHistory == << <<FnNow - 14400, 100000>>, <<FnNow - 3600, 10000>> >>

\* volume_history as the functions find it: the key absent, or holding a history.
FnVolumeHistories ==
    {<<>>} \cup {(FnSymbol :> h) :
                    h \in HistoriesUpTo(MaxHist) \cup {ScenarioHistory, HorizonHistory}
                             \cup OutOfOrderHistories}

FnInputs ==
    [vh : FnVolumeHistories, volume : FnFresh, window_minutes : FnWindows,
     threshold : FnThresholds]

\* Readings of the wall clock handed to is_trading_hours: every quarter of an
\* hour of two days, and the seconds around the two ends of the session
\* (08:59:59, 09:00:00, 15:59:00, 15:59:59, 16:00:00, 16:00:01).
FnClocks ==
    {900 * k : k \in 0..191} \cup {32399, 32400, 57540, 57599, 57600, 57601}

FnClockInputs == [clock : FnClocks]

\* An input of the history functions (as opposed to a clock reading).
IsSampleInput(in) == "vh" \in DOMAIN in

InitFn ==
    /\ popular_stocks = InitStocks
    /\ monitored_groups = <<>>
    /\ stock_data = <<>>
    /\ volume_history = <<>>
    /\ now = FnNow
    /\ pc = "gate"
    /\ it = 0
    /\ git = 0
    /\ cur = NoCur
    /\ reply = "none"
    /\ sva_return = NotCalled
    /\ error_log = <<>>
    /\ snapshot = <<>>
    /\ processed = <<>>
    /\ bdests = <<>>
    /\ attempts = <<>>
    /\ alert = NoAlert
    /\ monitor_task = Pending
    /\ failed = {}
    /\ failures = 0
    /\ cycles = 0
    /\ samples = 0
    /\ cmds = 0
    /\ fn_pc = "input"
    /\ fn_in \in FnInputs \cup FnClockInputs
    /\ fn_out = "none"
    /\ InitWl

\* calculate_average_volume(FnSymbol) on the input history at FnNow
FnCalculateAverageVolume ==
    /\ fn_pc = "input"
    /\ IsSampleInput(fn_in)
    /\ fn_pc' = "calculate_average_volume"
    /\ fn_out' = CalculateAverageVolume(fn_in.vh, FnSymbol, FnNow, fn_in.window_minutes)
    /\ UNCHANGED << progVars, wlVars, fn_in >>

\* should_alert(FnSymbol, volume) on the input history at FnNow
FnShouldAlert ==
    /\ fn_pc = "input"
    /\ IsSampleInput(fn_in)
    /\ fn_pc' = "should_alert"
    /\ fn_out' = ShouldAlertEval(fn_in.vh, FnSymbol, fn_in.volume, FnNow,
                                 fn_in.window_minutes, fn_in.threshold)
    /\ UNCHANGED << progVars, wlVars, fn_in >>

\* The loop body for a sample of FnSymbol obtained at FnNow.
FnMonitorStep ==
    /\ fn_pc = "input"
    /\ IsSampleInput(fn_in)
    /\ fn_pc' = "monitor_step"
    /\ \E d2 \in ReadDrift, d3 \in ReadDrift :
         fn_out' = MonitorStep(fn_in.vh, FnSymbol, fn_in.volume, FnNow, FnNow + d2,
                               FnNow + d2 + d3, fn_in.window_minutes, fn_in.threshold)
    /\ UNCHANGED << progVars, wlVars, fn_in >>

\* is_trading_hours() when the wall clock reads fn_in.clock
FnIsTradingHours ==
    /\ fn_pc = "input"
    /\ ~IsSampleInput(fn_in)
    /\ fn_pc' = "is_trading_hours"
    /\ fn_out' = IsTradingHours(fn_in.clock)
    /\ UNCHANGED << progVars, wlVars, fn_in >>

\* The loop bodies of alert.py and of haha.py side by side: the same history,
\* the same clock readings and the same fresh sample of FnSymbol.  Recorded
\* for each variant: the history it leaves, the average its should_alert
\* computes and its decision.
FnBothVariants ==
    /\ fn_pc = "input"
    /\ IsSampleInput(fn_in)
    /\ fn_pc' = "both_variants"
    /\ \E d2 \in ReadDrift :
         LET a == MonitorStep(fn_in.vh, FnSymbol, fn_in.volume, FnNow, FnNow + d2,
                              FnNow + d2, fn_in.window_minutes, fn_in.threshold)
             h == HahaMonitorStep(fn_in.vh, FnSymbol, fn_in.volume, FnNow, FnNow + d2,
                                  fn_in.window_minutes, fn_in.threshold)
         IN fn_out' =
              [alert |-> [vh |-> a.vh, fire |-> a.fire,
                          avg |-> CalculateAverageVolume(a.vh, FnSymbol, FnNow + d2,
                                                         fn_in.window_minutes)],
               haha |-> [vh |-> h.vh, fire |-> h.fire,
                         avg |-> HahaCalculateAverageVolume(h.vh, FnSymbol, FnNow + d2,
                                                            fn_in.window_minutes)]]
    /\ UNCHANGED << progVars, wlVars, fn_in >>

NextFn ==
    \/ FnCalculateAverageVolume
    \/ FnShouldAlert
    \/ FnMonitorStep
    \/ FnBothVariants
    \/ FnIsTradingHours

SpecFn == InitFn /\ [][NextFn]_vars

\* ------------------------------------------------------------ specification

Next ==
    \/ GateClosed
    \/ WakeClosed
    \/ StartCycle
    \/ LoopDone
    \/ WakeInterval
    \/ SkipSymbol
    \/ TakeSample
    \/ SendDone
    \/ LoopError
    \/ WakeBackoff
    \/ CancelSleep
    \/ \E user_id \in Users, chat_id \in Chats : StartCommand(user_id, chat_id)
    \/ \E user_id \in Users, args \in StockArgs : AddStockCommand(user_id, args)
    \/ \E user_id \in Users, args \in StockArgs : RemoveStockCommand(user_id, args)

Spec == Init /\ [][Next]_vars

\* The monitor loop interleaved with all five commands of the front end,
\* issued by admins (for anyone else no handler body runs).
NextAll ==
    \/ GateClosed
    \/ WakeClosed
    \/ StartCycle
    \/ LoopDone
    \/ WakeInterval
    \/ SkipSymbol
    \/ TakeSample
    \/ SendDone
    \/ LoopError
    \/ WakeBackoff
    \/ CancelSleep
    \/ \E user_id \in admin_ids, chat_id \in Chats : StartCommand(user_id, chat_id)
    \/ \E user_id \in admin_ids, args \in StockArgs : AddStockCommand(user_id, args)
    \/ \E user_id \in admin_ids, args \in StockArgs : RemoveStockCommand(user_id, args)
    \/ \E user_id \in admin_ids : ListStocksCommand(user_id)
    \/ \E user_id \in admin_ids : StatusCommand(user_id)

SpecAll == Init /\ [][NextAll]_vars

\* The wall clock of a process started two minutes before the session ends
\* (15:58:00).
LateStart == 57480

\* The state after construction of a process started at LateStart.
InitLate ==
    /\ popular_stocks = InitStocks
    /\ monitored_groups = <<>>
    /\ stock_data = <<>>
    /\ volume_history = <<>>
    /\ now = LateStart
    /\ pc = "gate"
    /\ it = 0
    /\ git = 0
    /\ cur = NoCur
    /\ reply = "none"
    /\ sva_return = NotCalled
    /\ error_log = <<>>
    /\ snapshot = <<>>
    /\ processed = <<>>
    /\ bdests = <<>>
    /\ attempts = <<>>
    /\ alert = NoAlert
    /\ monitor_task = Pending
    /\ failed = {}
    /\ failures = 0
    /\ cycles = 0
    /\ samples = 0
    /\ cmds = 0
    /\ fn_pc = "off"
    /\ fn_in = "none"
    /\ fn_out = "none"
    /\ InitWl

\* The monitor loop and the start command across the end of the session.
NextLate ==
    \/ GateClosed
    \/ WakeClosed
    \/ StartCycle
    \/ LoopDone
    \/ WakeInterval
    \/ SkipSymbol
    \/ TakeSample
    \/ SendDone
    \/ LoopError
    \/ WakeBackoff
    \/ CancelSleep
    \/ \E user_id \in Users, chat_id \in Chats : StartCommand(user_id, chat_id)

SpecLate == InitLate /\ [][NextLate]_vars

\* The steps monitor_stocks takes by itself: evaluating the gate, starting and
\* finishing the for loop, and returning from a sleep when its timer fires.
LoopStep ==
    \/ GateClosed
    \/ WakeClosed
    \/ StartCycle
    \/ LoopDone
    \/ WakeInterval
    \/ WakeBackoff

\* The completion of a call to the outside: get_stock_data (yfinance) returns,
\* send_message (Telegram) returns or raises.
Answer ==
    \/ SkipSymbol
    \/ TakeSample
    \/ SendDone

\* The event loop runs monitor_stocks whenever it can take a step, and timers
\* fire.  Nothing in the code bounds the time a call to the outside takes.
SpecLive == Spec /\ WF_vars(LoopStep)

\* The same, for runs in which every call to the outside is answered.
SpecAnswered == Spec /\ WF_vars(LoopStep) /\ WF_vars(Answer)

\* ----------------------------------------------------------- whitelist file

\* Ids given to the whitelist commands of the bot and of the utility.
WlUsers == {8, 9}
WlGroups == {-100}

\* set(list)
Range(list) == {list[i] : i \in 1..Len(list)}

\* list(a_set): the elements once each, in the order the set iterates them.
ListsOf(S) == {l \in [1..Cardinality(S) -> S] : Range(l) = S}

\* dict.get(key, default)
Get(obj, key, default) == IF key \in DOMAIN obj THEN obj[key] ELSE default

\* haha.py save_whitelist (lines 78-89): the object json.dump writes, for one
\* order of the two sets.
BotDump(users, groups, enabled) ==
    {[users |-> u, groups |-> g, enabled |-> enabled] :
        u \in ListsOf(users), g \in ListsOf(groups)}

\* whitelist.py get_default_structure (lines 30-41) at time t
GetDefaultStructure(t) ==
    [users |-> <<>>, groups |-> <<>>, enabled |-> TRUE,
     metadata |-> [created |-> t, last_modified |-> t, version |-> "1.0"]]

\* whitelist.py load_whitelist (lines 19-28): the object of the file as
\* json.load returns it, or the default structure when there is no file.
ManagerLoad(file, t) == IF file # <<>> THEN file[1] ELSE GetDefaultStructure(t)

\* whitelist.py save_whitelist (lines 43-51): line 45 assigns
\* data['metadata']['last_modified'] before the try; without the key
\* 'metadata' it raises KeyError and nothing is written.
ManagerSave(data, file, t) ==
    IF "metadata" \notin DOMAIN data
    THEN [data |-> data, file |-> file, error |-> "KeyError"]
    ELSE LET stamped == [data EXCEPT !.metadata.last_modified = t]
         IN [data |-> stamped, file |-> <<stamped>>, error |-> "none"]

\* Callers of the bot's commands: 1 is an admin, 8 is not.
WlCallers == {1, 8}
\* Chats the bot's commands come from: two groups and the private chat of user 8.
WlChats == {-100, -200, 8}
\* context.args of the bot's whitelist commands.
WlArgs == { <<>>, <<"8">>, <<"-100">>, <<"x">> }

\* int(context.args[0]) of lines 244, 262, 286, 306: the number a token
\* denotes, or ValueError.
IntOf(token) ==
    CASE token = "8" -> [ok |-> TRUE, value |-> 8]
      [] token = "9" -> [ok |-> TRUE, value |-> 9]
      [] token = "-100" -> [ok |-> TRUE, value |-> -100]
      [] token = "-200" -> [ok |-> TRUE, value |-> -200]
      [] OTHER -> [ok |-> FALSE, value |-> 0]

\* An admin_only that lets every caller through.
AdminOnlyAllowsAll(user_id) == "run"

\* haha.py admin_only (lines 91-100): the wrapped handler runs for an admin;
\* anyone else is answered with the admin-only refusal.
AdminOnly(user_id) == IF user_id \in admin_ids THEN "run" ELSE "admin only"

\* whitelist_required without the test of the enabled flag (lines 106-107).
BotWhitelistRequiredAlwaysEnabled(user_id, chat_id) ==
    IF user_id \in admin_ids THEN "run"
    ELSE IF user_id \in whitelisted_users \/ chat_id \in whitelisted_groups THEN "run"
    ELSE "no access"

\* haha.py whitelist_required (lines 102-125): the wrapped handler runs when
\* the whitelist is disabled, for an admin, and for a whitelisted user or
\* chat; anyone else is answered with the refusal of lines 120-124.
BotWhitelistRequired(user_id, chat_id) ==
    IF ~whitelist_enabled THEN "run"
    ELSE IF user_id \in admin_ids THEN "run"
    ELSE IF user_id \in whitelisted_users \/ chat_id \in whitelisted_groups THEN "run"
    ELSE "no access"

\* update.message.reply_text(text) of the handler of command cmd.
BotAnswer(cmd, user_id, chat_id, text) ==
    wl_reply' = [n |-> wl_ops + 1, cmd |-> cmd, user_id |-> user_id, chat_id |-> chat_id,
                 text |-> text]

\* haha.py save_whitelist (lines 78-89) for the sets and the flag given.
BotSave(users, groups, enabled) ==
    /\ \E data \in BotDump(users, groups, enabled) : whitelist_json' = <<data>>
    /\ wl_last' = [by |-> "bot", op |-> "none", error |-> "none", returned |-> "none",
                   issues |-> {}]

\* haha.py __init__ lines 32-37 and load_whitelist (lines 66-76): the bot
\* (re)starts and reads the file if it exists.
BotStart ==
    /\ wl_ops < MaxWlOps
    /\ wl_ops' = wl_ops + 1
    /\ IF whitelist_json # <<>>
       THEN LET data == whitelist_json[1]
            IN /\ whitelisted_users' = Range(Get(data, "users", <<>>))
               /\ whitelisted_groups' = Range(Get(data, "groups", <<>>))
               /\ whitelist_enabled' = Get(data, "enabled", TRUE)
       ELSE /\ whitelisted_users' = {}
            /\ whitelisted_groups' = {}
            /\ whitelist_enabled' = TRUE
    /\ wl_last' = [by |-> "bot", op |-> "none", error |-> "none", returned |-> "none",
                   issues |-> {}]
    /\ wl_reply' = NoReply
    /\ UNCHANGED << whitelist_json, manager_data >>
    /\ UNCHANGED << progVars, fnVars >>

\* haha.py status_command (lines 378-393), a command behind whitelist_required
\* whose body only answers.
BotStatusCommand(caller, chat_id) ==
    /\ wl_ops < MaxWlOps
    /\ wl_ops' = wl_ops + 1
    /\ IF BotWhitelistRequired(caller, chat_id) # "run"
       THEN BotAnswer("status", caller, chat_id, BotWhitelistRequired(caller, chat_id))
       ELSE BotAnswer("status", caller, chat_id, "status")
    /\ UNCHANGED << whitelist_json, whitelisted_users, whitelisted_groups, whitelist_enabled,
                    manager_data, wl_last >>
    /\ UNCHANGED << progVars, fnVars >>

\* haha.py whitelist_add_user (lines 233-249): behind admin_only; add the
\* number of the argument to the set, save_whitelist.
BotWhitelistAddUser(caller, chat_id, args) ==
    /\ wl_ops < MaxWlOps
    /\ wl_ops' = wl_ops + 1
    /\ IF AdminOnly(caller) # "run"
       THEN /\ BotAnswer("whitelist_add_user", caller, chat_id, AdminOnly(caller))
            /\ UNCHANGED << whitelisted_users, whitelist_json, wl_last >>
       ELSE IF args = <<>>
       THEN /\ BotAnswer("whitelist_add_user", caller, chat_id, "usage")
            /\ UNCHANGED << whitelisted_users, whitelist_json, wl_last >>
       ELSE LET user_id == IntOf(args[1])
            IN IF ~user_id.ok
               THEN /\ BotAnswer("whitelist_add_user", caller, chat_id, "not a number")
                    /\ UNCHANGED << whitelisted_users, whitelist_json, wl_last >>
               ELSE /\ whitelisted_users' = whitelisted_users \cup {user_id.value}
                    /\ BotSave(whitelisted_users', whitelisted_groups, whitelist_enabled)
                    /\ BotAnswer("whitelist_add_user", caller, chat_id, "added")
    /\ UNCHANGED << whitelisted_groups, whitelist_enabled, manager_data >>
    /\ UNCHANGED << progVars, fnVars >>

\* haha.py whitelist_remove_user (lines 251-270): behind admin_only; remove
\* the number of the argument if it is in the set, save_whitelist.
BotWhitelistRemoveUser(caller, chat_id, args) ==
    /\ wl_ops < MaxWlOps
    /\ wl_ops' = wl_ops + 1
    /\ IF AdminOnly(caller) # "run"
       THEN /\ BotAnswer("whitelist_remove_user", caller, chat_id, AdminOnly(caller))
            /\ UNCHANGED << whitelisted_users, whitelist_json, wl_last >>
       ELSE IF args = <<>>
       THEN /\ BotAnswer("whitelist_remove_user", caller, chat_id, "usage")
            /\ UNCHANGED << whitelisted_users, whitelist_json, wl_last >>
       ELSE LET user_id == IntOf(args[1])
            IN IF ~user_id.ok
               THEN /\ BotAnswer("whitelist_remove_user", caller, chat_id, "not a number")
                    /\ UNCHANGED << whitelisted_users, whitelist_json, wl_last >>
               ELSE IF user_id.value \in whitelisted_users
               THEN /\ whitelisted_users' = whitelisted_users \ {user_id.value}
                    /\ BotSave(whitelisted_users', whitelisted_groups, whitelist_enabled)
                    /\ BotAnswer("whitelist_remove_user", caller, chat_id, "removed")
               ELSE /\ BotAnswer("whitelist_remove_user", caller, chat_id, "not in whitelist")
                    /\ UNCHANGED << whitelisted_users, whitelist_json, wl_last >>
    /\ UNCHANGED << whitelisted_groups, whitelist_enabled, manager_data >>
    /\ UNCHANGED << progVars, fnVars >>

\* haha.py whitelist_add_group (lines 272-293): behind admin_only; without an
\* argument the chat of the command is taken if it is a group (id < 0); add
\* the id to the set, save_whitelist.
BotWhitelistAddGroup(caller, chat_id, args) ==
    /\ wl_ops < MaxWlOps
    /\ wl_ops' = wl_ops + 1
    /\ IF AdminOnly(caller) # "run"
       THEN /\ BotAnswer("whitelist_add_group", caller, chat_id, AdminOnly(caller))
            /\ UNCHANGED << whitelisted_groups, whitelist_json, wl_last >>
       ELSE IF args = <<>> /\ chat_id > 0
       THEN /\ BotAnswer("whitelist_add_group", caller, chat_id, "usage")
            /\ UNCHANGED << whitelisted_groups, whitelist_json, wl_last >>
       ELSE LET group_id == IF args = <<>> THEN [ok |-> TRUE, value |-> chat_id]
                            ELSE IntOf(args[1])
            IN IF ~group_id.ok
               THEN /\ BotAnswer("whitelist_add_group", caller, chat_id, "not a number")
                    /\ UNCHANGED << whitelisted_groups, whitelist_json, wl_last >>
               ELSE /\ whitelisted_groups' = whitelisted_groups \cup {group_id.value}
                    /\ BotSave(whitelisted_users, whitelisted_groups', whitelist_enabled)
                    /\ BotAnswer("whitelist_add_group", caller, chat_id, "added")
    /\ UNCHANGED << whitelisted_users, whitelist_enabled, manager_data >>
    /\ UNCHANGED << progVars, fnVars >>

\* haha.py whitelist_remove_group (lines 295-314): behind admin_only; remove
\* the number of the argument if it is in the set, save_whitelist.
BotWhitelistRemoveGroup(caller, chat_id, args) ==
    /\ wl_ops < MaxWlOps
    /\ wl_ops' = wl_ops + 1
    /\ IF AdminOnly(caller) # "run"
       THEN /\ BotAnswer("whitelist_remove_group", caller, chat_id, AdminOnly(caller))
            /\ UNCHANGED << whitelisted_groups, whitelist_json, wl_last >>
       ELSE IF args = <<>>
       THEN /\ BotAnswer("whitelist_remove_group", caller, chat_id, "usage")
            /\ UNCHANGED << whitelisted_groups, whitelist_json, wl_last >>
       ELSE LET group_id == IntOf(args[1])
            IN IF ~group_id.ok
               THEN /\ BotAnswer("whitelist_remove_group", caller, chat_id, "not a number")
                    /\ UNCHANGED << whitelisted_groups, whitelist_json, wl_last >>
               ELSE IF group_id.value \in whitelisted_groups
               THEN /\ whitelisted_groups' = whitelisted_groups \ {group_id.value}
                    /\ BotSave(whitelisted_users, whitelisted_groups', whitelist_enabled)
                    /\ BotAnswer("whitelist_remove_group", caller, chat_id, "removed")
               ELSE /\ BotAnswer("whitelist_remove_group", caller, chat_id, "not in whitelist")
                    /\ UNCHANGED << whitelisted_groups, whitelist_json, wl_last >>
    /\ UNCHANGED << whitelisted_users, whitelist_enabled, manager_data >>
    /\ UNCHANGED << progVars, fnVars >>

\* haha.py whitelist_enable / whitelist_disable (lines 343-355): behind
\* admin_only; set the flag, save_whitelist.
BotWhitelistSetEnabled(caller, chat_id, enabled) ==
    LET cmd == IF enabled THEN "whitelist_enable" ELSE "whitelist_disable"
    IN /\ wl_ops < MaxWlOps
       /\ wl_ops' = wl_ops + 1
       /\ IF AdminOnly(caller) # "run"
          THEN /\ BotAnswer(cmd, caller, chat_id, AdminOnly(caller))
               /\ UNCHANGED << whitelist_enabled, whitelist_json, wl_last >>
          ELSE /\ whitelist_enabled' = enabled
               /\ BotSave(whitelisted_users, whitelisted_groups, enabled)
               /\ BotAnswer(cmd, caller, chat_id, IF enabled THEN "enabled" ELSE "disabled")
       /\ UNCHANGED << whitelisted_users, whitelisted_groups, manager_data >>
       /\ UNCHANGED << progVars, fnVars >>

\* whitelist.py main (lines 337-367): one invocation of the utility loads the
\* file into a new WhitelistManager and calls method op, which changes the
\* loaded object and saves it.  `changed` is the object after the change,
\* `save` whether the method reaches save_whitelist, `value` what it returns
\* when it completes; an exception of save_whitelist leaves the method before
\* its return statement.
ManagerRun(op, changed, save, value) ==
    /\ wl_ops < MaxWlOps
    /\ wl_ops' = wl_ops + 1
    /\ IF save
       THEN LET saved == ManagerSave(changed, whitelist_json, wl_ops + 1)
            IN /\ manager_data' = <<saved.data>>
               /\ whitelist_json' = saved.file
               /\ wl_last' = [by |-> "manager", op |-> op, error |-> saved.error,
                              returned |-> IF saved.error = "none" THEN value
                                           ELSE "raised",
                              issues |-> {}]
       ELSE /\ manager_data' = <<changed>>
            /\ wl_last' = [by |-> "manager", op |-> op, error |-> "none",
                           returned |-> value, issues |-> {}]
            /\ UNCHANGED whitelist_json
    /\ UNCHANGED << whitelisted_users, whitelisted_groups, whitelist_enabled, wl_reply >>
    /\ UNCHANGED << progVars, fnVars >>

\* whitelist.py add-user: add_user (lines 53-62)
ManagerAddUser(user_id) ==
    LET data == ManagerLoad(whitelist_json, wl_ops + 1)
    IN IF ~InList(data.users, user_id)
       THEN ManagerRun("add_user", [data EXCEPT !.users = Append(@, user_id)], TRUE, "True")
       ELSE ManagerRun("add_user", data, FALSE, "False")

\* whitelist.py remove-user: remove_user (lines 64-73)
ManagerRemoveUser(user_id) ==
    LET data == ManagerLoad(whitelist_json, wl_ops + 1)
    IN IF InList(data.users, user_id)
       THEN ManagerRun("remove_user", [data EXCEPT !.users = ListRemove(@, user_id)],
                       TRUE, "True")
       ELSE ManagerRun("remove_user", data, FALSE, "False")

\* whitelist.py add-group: add_group (lines 75-84)
ManagerAddGroup(group_id) ==
    LET data == ManagerLoad(whitelist_json, wl_ops + 1)
    IN IF ~InList(data.groups, group_id)
       THEN ManagerRun("add_group", [data EXCEPT !.groups = Append(@, group_id)],
                       TRUE, "True")
       ELSE ManagerRun("add_group", data, FALSE, "False")

\* whitelist.py remove-group: remove_group (lines 86-95)
ManagerRemoveGroup(group_id) ==
    LET data == ManagerLoad(whitelist_json, wl_ops + 1)
    IN IF InList(data.groups, group_id)
       THEN ManagerRun("remove_group", [data EXCEPT !.groups = ListRemove(@, group_id)],
                       TRUE, "True")
       ELSE ManagerRun("remove_group", data, FALSE, "False")

\* whitelist.py enable / disable: enable_whitelist, disable_whitelist (lines 97-107)
ManagerSetEnabled(enabled) ==
    LET data == ManagerLoad(whitelist_json, wl_ops + 1)
    IN ManagerRun("set_enabled", [data EXCEPT !.enabled = enabled], TRUE, "None")

NextWl ==
    \/ BotStart
    \/ \E caller \in WlCallers, chat_id \in WlChats : BotStatusCommand(caller, chat_id)
    \/ \E caller \in WlCallers, chat_id \in WlChats, args \in WlArgs :
          BotWhitelistAddUser(caller, chat_id, args)
    \/ \E caller \in WlCallers, chat_id \in WlChats, args \in WlArgs :
          BotWhitelistRemoveUser(caller, chat_id, args)
    \/ \E caller \in WlCallers, chat_id \in WlChats, args \in WlArgs :
          BotWhitelistAddGroup(caller, chat_id, args)
    \/ \E caller \in WlCallers, chat_id \in WlChats, args \in WlArgs :
          BotWhitelistRemoveGroup(caller, chat_id, args)
    \/ \E caller \in WlCallers, chat_id \in WlChats, enabled \in BOOLEAN :
          BotWhitelistSetEnabled(caller, chat_id, enabled)
    \/ \E user_id \in WlUsers : ManagerAddUser(user_id)
    \/ \E user_id \in WlUsers : ManagerRemoveUser(user_id)
    \/ \E group_id \in WlGroups : ManagerAddGroup(group_id)
    \/ \E group_id \in WlGroups : ManagerRemoveGroup(group_id)
    \/ \E enabled \in BOOLEAN : ManagerSetEnabled(enabled)

SpecWl == Init /\ [][NextWl]_vars

\* --------------------------------------------- validation and cleaning

\* Entries of the lists of a whitelist file that was edited by hand or
\* restored from elsewhere.  A JSON value is [int |-> n] for an integer and
\* [str |-> s] for a string (the lists of SpecWl hold integers only and keep
\* them bare).
JInt(n) == [int |-> n]
JStr(s) == [str |-> s]

\* isinstance(v, int)
IsInstanceInt(v) == "int" \in DOMAIN v

\* The longest users or groups list of a starting file.
MaxIds == 3

\* Entries of the users list: two valid ids, 0, and a string.
CleanUserEntries == {JInt(8), JInt(9), JInt(0), JStr("x")}
\* Entries of the groups list: a group id and a string.
CleanGroupEntries == {JInt(-100), JStr("g")}

ListsUpTo(S, n) == UNION {[1..k -> S] : k \in 0..n}

\* The starting files: written by the utility (with metadata) or by the bot
\* (without), then edited.
CleanFiles ==
    [users : ListsUpTo(CleanUserEntries, MaxIds), groups : ListsUpTo(CleanGroupEntries, MaxIds),
     enabled : {TRUE},
     metadata : {[created |-> 0, last_modified |-> 0, version |-> "1.0"]}]
      \cup [users : ListsUpTo(CleanUserEntries, MaxIds),
            groups : ListsUpTo(CleanGroupEntries, MaxIds), enabled : {TRUE}]

\* clean_whitelist keeping every integer in users, without user_id > 0.
CleanedUsersAnyInt(users) == {v \in Range(users) : IsInstanceInt(v)}

\* whitelist.py clean_whitelist lines 261-264: set([user_id for user_id in
\* users if isinstance(user_id, int) and user_id > 0])
CleanedUsers(users) == {v \in Range(users) : IsInstanceInt(v) /\ v.int > 0}

\* whitelist.py clean_whitelist lines 266-269
CleanedGroups(groups) == {v \in Range(groups) : IsInstanceInt(v)}

\* whitelist.py validate_whitelist lines 210-244: the kinds of issue it
\* collects.  The lists of the model are lists and the flag is a boolean, so
\* the type issues of lines 219-226 do not arise.
ValidateIssues(data) ==
    LET users == Get(data, "users", <<>>)
        groups == Get(data, "groups", <<>>)
    IN {<<"Missing key", key>> :
           key \in {"users", "groups", "enabled", "metadata"} \ DOMAIN data}
       \cup (IF Len(users) # Cardinality(Range(users))
             THEN {<<"Duplicate users found", "">>} ELSE {})
       \cup (IF Len(groups) # Cardinality(Range(groups))
             THEN {<<"Duplicate groups found", "">>} ELSE {})
       \cup (IF \E i \in 1..Len(users) : ~IsInstanceInt(users[i]) \/ users[i].int <= 0
             THEN {<<"Invalid user ID", "">>} ELSE {})
       \cup (IF \E i \in 1..Len(groups) : ~IsInstanceInt(groups[i])
             THEN {<<"Invalid group ID", "">>} ELSE {})

\* whitelist.py clean: clean_whitelist (lines 255-278).  list(set(...)) gives
\* the kept ids once each in the order the set iterates them.  Every file of
\* the model has the keys users and groups, which lines 257-258 read.
ManagerCleanWhitelist ==
    LET data == ManagerLoad(whitelist_json, wl_ops + 1)
    IN \E users \in ListsOf(CleanedUsers(data.users)),
          groups \in ListsOf(CleanedGroups(data.groups)) :
          ManagerRun("clean_whitelist",
                     [data EXCEPT !.users = users, !.groups = groups], TRUE, "None")

\* whitelist.py validate: validate_whitelist (lines 208-253); nothing is saved.
ManagerValidateWhitelist ==
    LET data == ManagerLoad(whitelist_json, wl_ops + 1)
        issues == ValidateIssues(data)
    IN /\ wl_ops < MaxWlOps
       /\ wl_ops' = wl_ops + 1
       /\ manager_data' = <<data>>
       /\ wl_last' = [by |-> "manager", op |-> "validate_whitelist", error |-> "none",
                      returned |-> IF issues = {} THEN "True" ELSE "False",
                      issues |-> issues]
       /\ UNCHANGED << whitelist_json, whitelisted_users, whitelisted_groups,
                       whitelist_enabled, wl_reply >>
       /\ UNCHANGED << progVars, fnVars >>

\* A whitelist file is in place (fn_in keeps its content as it was found);
\* the bot is not running and the utility has not run yet.
InitClean ==
    /\ popular_stocks = InitStocks
    /\ monitored_groups = <<>>
    /\ stock_data = <<>>
    /\ volume_history = <<>>
    /\ now = StartTime
    /\ pc = "gate"
    /\ it = 0
    /\ git = 0
    /\ cur = NoCur
    /\ reply = "none"
    /\ sva_return = NotCalled
    /\ error_log = <<>>
    /\ snapshot = <<>>
    /\ processed = <<>>
    /\ bdests = <<>>
    /\ attempts = <<>>
    /\ alert = NoAlert
    /\ monitor_task = Pending
    /\ failed = {}
    /\ failures = 0
    /\ cycles = 0
    /\ samples = 0
    /\ cmds = 0
    /\ fn_pc = "input"
    /\ fn_in \in CleanFiles
    /\ fn_out = "none"
    /\ whitelist_json = <<fn_in>>
    /\ whitelisted_users = {}
    /\ whitelisted_groups = {}
    /\ whitelist_enabled = TRUE
    /\ manager_data = <<>>
    /\ wl_last = [by |-> "none", op |-> "none", error |-> "none", returned |-> "none",
                  issues |-> {}]
    /\ wl_reply = NoReply
    /\ wl_ops = 0

NextClean ==
    \/ ManagerCleanWhitelist
    \/ ManagerValidateWhitelist

SpecClean == InitClean /\ [][NextClean]_vars

\* ------------------------------------------------------------------ claims

IsPrefix(a, b) == Len(a) <= Len(b) /\ SubSeq(b, 1, Len(a)) = a

\* The indices of the entries recorded inside [asOf - window, asOf].
InsideWindow(history, asOf, window_minutes) ==
    {i \in 1..Len(history) :
        /\ asOf - window_minutes * 60 <= history[i][1]
        /\ history[i][1] <= asOf}

RECURSIVE SumAt(_, _)
SumAt(history, indices) ==
    IF indices = {} THEN 0
    ELSE LET i == CHOOSE j \in indices : TRUE
         IN history[i][2] + SumAt(history, indices \ {i})

FnHistory == HistoryOf(fn_in.vh, FnSymbol)

\* C1: in every polling cycle the symbols the loop body runs for are the
\* tracked list as it was when the cycle started, each once and in order: at
\* any point of the cycle they are a prefix of that list, and when the cycle
\* reaches its sleep they are exactly that list.
C1_AsClaimed ==
    /\ pc \in {"for", "send", "sleep_interval"} => IsPrefix(processed, snapshot)
    /\ pc = "sleep_interval" => processed = snapshot

\* C2: a delivery that raised never ends the broadcast: no exception leaves
\* send_volume_alert, every destination registered when the broadcast started
\* has had its attempt when the broadcast returns, in list order, and every
\* failure was logged.
C2_FailuresIsolated ==
    /\ sva_return.state # "raised"
    /\ \A j \in 1..Len(attempts) :
         /\ j <= Len(monitored_groups) /\ attempts[j].dest = monitored_groups[j]
         /\ ~attempts[j].ok =>
              \E k \in 1..Len(error_log) : error_log[k] = <<attempts[j].dest, "Exception">>
    /\ sva_return.state = "returned" =>
         /\ Len(attempts) >= Len(bdests)
         /\ \A i \in 1..Len(bdests) : attempts[i].dest = bdests[i]

\* C2 witness: a broadcast to two destinations has returned; the delivery to
\* the first failed and the second was attempted and succeeded.
C2_Witness ==
    /\ sva_return.state = "returned"
    /\ Len(bdests) = 2
    /\ Len(attempts) = 2
    /\ ~attempts[1].ok
    /\ attempts[2].ok

\* C3: when a broadcast that attempted deliveries has returned, its caller
\* holds a delivery report (a value recording the outcome per destination).
C3_AsClaimed ==
    (sva_return.state = "returned" /\ attempts # <<>>) => sva_return.value # "None"

\* C4: the alert decision is false whenever the current volume is below
\* 90000, for every history, window and threshold; volume 50000 against an
\* average of 10000 does not alert.
C4_BelowFloorNeverAlerts ==
    /\ (fn_pc = "should_alert" /\ fn_in.volume < 90000) => ~fn_out.result
    /\ (fn_pc = "monitor_step" /\ fn_in.volume < 90000) => ~fn_out.fire

\* C4 witness: should_alert has decided for volume 50000 against two recorded
\* volumes of 10000 (ratio 5.0, threshold 2.0), and the decision is false.
C4_Witness ==
    /\ fn_pc = "should_alert"
    /\ fn_in.volume = 50000
    /\ FnHistory = << <<FnNow, 10000>>, <<FnNow, 10000>> >>
    /\ fn_in.threshold = [num |-> 2, den |-> 1]
    /\ ~fn_out.result

\* C5: the alert decision is false whenever the windowed average is 0, for
\* every volume at or above the floor, and no division by a zero average is
\* executed.
C5_ZeroAverageNeverAlerts ==
    fn_pc = "should_alert" =>
        /\ (/\ fn_in.volume >= 90000
            /\ CalculateAverageVolume(fn_in.vh, FnSymbol, FnNow, fn_in.window_minutes).num = 0)
           => (~fn_out.result /\ ~fn_out.divided)
        /\ fn_out.divided => fn_out.divisor.num # 0

\* C5 witness: should_alert has decided for volume 200000 against a history of
\* one entry (no baseline), and the decision is false.
C5_Witness ==
    /\ fn_pc = "should_alert"
    /\ fn_in.volume = 200000
    /\ FnHistory = << <<FnNow, 100000>> >>
    /\ ~fn_out.result
    /\ ~fn_out.divided

\* C6: for a volume at or above the floor and a non-zero windowed average the
\* decision is true exactly when volume / average >= threshold; 200000 against
\* 100000 at threshold 2.0 alerts, 150000 against 100000 does not.
C6_RatioAtThresholdAlerts ==
    fn_pc = "should_alert" =>
        LET avg == CalculateAverageVolume(fn_in.vh, FnSymbol, FnNow, fn_in.window_minutes)
            baseline100000 == FnHistory = << <<FnNow, 100000>>, <<FnNow, 100000>> >>
            two == fn_in.threshold = [num |-> 2, den |-> 1]
        IN /\ (fn_in.volume >= 90000 /\ avg.num > 0) =>
                (fn_out.result <=>
                    fn_in.volume * avg.den * fn_in.threshold.den
                        >= fn_in.threshold.num * avg.num)
           /\ (baseline100000 /\ two /\ fn_in.volume = 200000) => fn_out.result
           /\ (baseline100000 /\ two /\ fn_in.volume = 150000) => ~fn_out.result

\* C6 witness: volume 200000 against an average of 100000 at threshold 2.0
\* (ratio exactly 2.0) has been decided, and the decision is true.
C6_Witness ==
    /\ fn_pc = "should_alert"
    /\ fn_in.volume = 200000
    /\ FnHistory = << <<FnNow, 100000>>, <<FnNow, 100000>> >>
    /\ fn_in.threshold = [num |-> 2, den |-> 1]
    /\ fn_out.result

\* C7: with volumes 10000, 12000, 11000 recorded in the last 120 minutes and a
\* fresh sample of 95000 (threshold 2.0), the loop body fires an alert and the
\* ratio it reports is 95000/11000, shown as 8.6.
C7_AsClaimed ==
    (/\ fn_pc = "monitor_step"
     /\ FnHistory = ScenarioHistory
     /\ fn_in.volume = 95000
     /\ fn_in.window_minutes = 120
     /\ fn_in.threshold = [num |-> 2, den |-> 1])
    => (/\ fn_out.fire
        /\ fn_out.volume_ratio.den # 0
        /\ Tenths(fn_out.volume_ratio) = 86)

\* C8: a loop iteration that obtains a sample for an instrument whose history
\* is empty dispatches no alert, whatever the volume.
C8_FirstSampleNeverAlerts ==
    [][(/\ pc = "for"
        /\ it < Len(popular_stocks)
        /\ samples' = samples + 1
        /\ HistoryOf(volume_history, popular_stocks[it + 1]) = <<>>)
       => (alert' = alert /\ pc' = "for" /\ sva_return' = sva_return)]_vars

\* C8 witness: an instrument holds its first sample, of volume 95000 (above
\* the floor), the sample is its latest state, and no alert was dispatched.
C8_Witness ==
    /\ alert.count = 0
    /\ \E symbol \in DOMAIN volume_history :
         /\ Len(volume_history[symbol]) = 1
         /\ volume_history[symbol][1][2] = 95000
         /\ symbol \in DOMAIN stock_data
         /\ stock_data[symbol].volume = 95000

\* C9: calculate_average_volume returns 0 when the instrument has no history,
\* fewer than 2 recorded samples, or no sample inside the window, for every
\* window length.
C9_SentinelWithoutBaseline ==
    fn_pc = "calculate_average_volume" =>
        ((\/ FnSymbol \notin DOMAIN fn_in.vh
          \/ Len(FnHistory) < 2
          \/ InsideWindow(FnHistory, FnNow, fn_in.window_minutes) = {})
         => fn_out = Zero)

\* C9 witness: the average of a history of one entry, recorded inside the
\* window with volume 100000, has been computed and is 0.
C9_Witness ==
    /\ fn_pc = "calculate_average_volume"
    /\ FnHistory = << <<FnNow, 100000>> >>
    /\ fn_out = Zero

\* C10: with at least 2 recorded samples and at least one inside
\* [asOf - window, asOf], calculate_average_volume is the arithmetic mean of
\* exactly the volumes recorded inside that interval.
C10_MeanOfWindow ==
    fn_pc = "calculate_average_volume" =>
        LET inside == InsideWindow(FnHistory, FnNow, fn_in.window_minutes)
        IN (Len(FnHistory) >= 2 /\ inside # {}) =>
              /\ fn_out.den > 0
              /\ fn_out.num * Cardinality(inside) = SumAt(FnHistory, inside) * fn_out.den

\* C10 witness: of three entries the oldest lies outside the 120 minute window
\* and the average is the mean of the other two, (10000 + 100000) / 2.
C10_Witness ==
    /\ fn_pc = "calculate_average_volume"
    /\ fn_in.window_minutes = 120
    /\ FnHistory = << <<FnNow - 7201, 100000>>, <<FnNow - 7200, 10000>>, <<FnNow, 100000>> >>
    /\ fn_out = [num |-> 110000, den |-> 2]

\* C11: after the append of the loop body at time t, the history of the
\* instrument ends with the fresh entry and holds no entry recorded before
\* t - 4 hours; and the average the loop computes right after the append, for
\* a window of 240 minutes or more, is the mean of entries recorded at or
\* after t - 4 hours only (those inside the window at the later reading).
C11_PrunedAfterAppend ==
    fn_pc = "monitor_step" =>
        LET after == fn_out.vh[FnSymbol]
            all == Append(FnHistory, <<FnNow, fn_in.volume>>)
            retained(asOf) == {i \in InsideWindow(all, asOf, fn_in.window_minutes) :
                                  all[i][1] >= FnNow - 4 * 3600}
        IN /\ \A i \in 1..Len(after) : after[i][1] >= FnNow - 4 * 3600
           /\ after[Len(after)] = <<FnNow, fn_in.volume>>
           /\ (fn_out.fire /\ fn_in.window_minutes >= 240) =>
                 \E d \in 0..2 :
                    /\ retained(FnNow + d) # {}
                    /\ fn_out.avg_volume.num * Cardinality(retained(FnNow + d))
                          = SumAt(all, retained(FnNow + d)) * fn_out.avg_volume.den

\* C11 witness: an entry of volume 100000 recorded 4 hours and 1 second ago
\* lies inside the 300 minute window; after the append of 95000 it is gone and
\* the average is the mean of the two retained entries, (10000 + 95000) / 2.
C11_Witness ==
    /\ fn_pc = "monitor_step"
    /\ fn_in.window_minutes = 300
    /\ fn_in.volume = 95000
    /\ FnHistory = << <<FnNow - 14401, 100000>>, <<FnNow - 3600, 10000>> >>
    /\ fn_out.vh[FnSymbol] = << <<FnNow - 3600, 10000>>, <<FnNow, 95000>> >>
    /\ fn_out.fire
    /\ fn_out.avg_volume = [num |-> 105000, den |-> 2]

\* C12: is_trading_hours is true exactly when the hour of the wall clock lies
\* in [9, 16): false during hour 8, true at 09:00:00, true at 15:59, false at
\* 16:00:00.
C12_HalfOpenSession ==
    fn_pc = "is_trading_hours" =>
        LET secondOfDay == fn_in.clock % 86400
        IN /\ fn_out = (9 * 3600 <= secondOfDay /\ secondOfDay < 16 * 3600)
           /\ (28800 <= secondOfDay /\ secondOfDay < 32400) => ~fn_out
           /\ secondOfDay = 32400 => fn_out
           /\ secondOfDay \in 57540..57599 => fn_out
           /\ secondOfDay = 57600 => ~fn_out

\* C12 witness: the gate has been evaluated at 16:00:00 and is closed.
C12_Witness ==
    /\ fn_pc = "is_trading_hours"
    /\ fn_in.clock = 57600
    /\ fn_out = FALSE

\* A step in which get_stock_data gave no sample for the instrument the
\* iterator yielded (line 659).
SampleFailed == pc = "for" /\ it' = it + 1 /\ samples' = samples

C14_AsClaimed ==
    (pc \in {"for", "send"}) ~> (pc = "sleep_interval" \/ monitor_task = Cancelled)

\* C15: a cancellation signalled while the loop sleeps (lines 650, 687, 691)
\* ends the task in that very step, cancelled, without the clock advancing,
\* without a back-off and without a new cycle; and once cancellation was
\* signalled the loop takes no further step.
C15_CancelStopsAtOnce ==
    [][/\ (/\ ~monitor_task.cancel
            /\ monitor_task'.cancel
            /\ pc \in {"sleep_closed", "sleep_interval", "backoff"})
           => (/\ pc' = "ended"
               /\ monitor_task' = Cancelled
               /\ now' = now
               /\ cycles' = cycles
               /\ failures' = failures)
       /\ monitor_task.cancel => (pc' = pc /\ cycles' = cycles /\ now' = now)]_vars

\* C15 witness: the task was cancelled during the sleep that follows the
\* first polling cycle (no broadcast was in progress, no back-off occurred).
C15_Witness ==
    /\ pc = "ended"
    /\ monitor_task = Cancelled
    /\ cycles = 1
    /\ failures = 0
    /\ sva_return.state # "running"
    /\ now = StartTime + ClosedSleep

\* C16: a loop iteration for which get_stock_data gave no sample leaves the
\* volume history and the latest-known state exactly as they were and
\* dispatches no alert.
C16_FailedSampleChangesNothing ==
    [][SampleFailed
         => (/\ volume_history' = volume_history
             /\ stock_data' = stock_data
             /\ alert' = alert
             /\ attempts' = attempts
             /\ bdests' = bdests
             /\ sva_return' = sva_return
             /\ pc' = "for")]_vars

\* C16 witness: an instrument that was sampled in an earlier cycle has failed
\* in the current one; its single history entry and its latest state are
\* still those of the earlier cycle.
C16_Witness ==
    \E symbol \in failed :
        /\ symbol \in DOMAIN volume_history
        /\ symbol \in DOMAIN stock_data
        /\ Len(volume_history[symbol]) = 1
        /\ volume_history[symbol][1][1] < now
        /\ stock_data[symbol].volume = volume_history[symbol][1][2]

ExplicitReplies ==
    {"activated", "already active", "usage", "added", "already monitored", "removed",
     "not monitored", "none monitored", "list", "status: open", "status: closed", "denied"}

\* C19: every command that was handled has ended with an explicit reply to
\* its caller, an admin or not.
C19_AsClaimed == cmds > 0 => reply \in ExplicitReplies

\* The users, groups and flag an object of the whitelist file stands for.
WlContent(data) ==
    [users |-> Range(Get(data, "users", <<>>)),
     groups |-> Range(Get(data, "groups", <<>>)),
     enabled |-> Get(data, "enabled", TRUE)]

\* C20: whichever of the two components touched whitelist.json last, its
\* operation ended without an error, and the users, groups and enabled flag
\* it holds are those of the file.
C20_AsClaimed ==
    /\ wl_last.error = "none"
    /\ (wl_last.by = "bot" /\ whitelist_json # <<>>) =>
          WlContent(whitelist_json[1])
             = [users |-> whitelisted_users, groups |-> whitelisted_groups,
                enabled |-> whitelist_enabled]
    /\ (wl_last.by = "manager" /\ whitelist_json # <<>>) =>
          WlContent(whitelist_json[1]) = WlContent(manager_data[1])

\* A step in which the bot of haha.py handled command cmd.
BotHandled(cmd) == wl_reply' # wl_reply /\ wl_reply'.cmd = cmd

\* C21: a command behind whitelist_required runs its body exactly when the
\* caller is an admin, or the whitelist is disabled, or the caller's user id
\* is whitelisted, or the chat id is whitelisted; any other caller gets the
\* refusal and the body does not run.
C21_AccessFollowsPolicy ==
    [][BotHandled("status") =>
          LET user_id == wl_reply'.user_id
              chat_id == wl_reply'.chat_id
              allowed == \/ user_id \in admin_ids
                         \/ ~whitelist_enabled
                         \/ user_id \in whitelisted_users
                         \/ chat_id \in whitelisted_groups
          IN /\ allowed => wl_reply'.text = "status"
             /\ ~allowed => wl_reply'.text = "no access"]_vars

\* C21 witness: with the whitelist enabled, user 8 (not an admin, not
\* whitelisted) was served in the whitelisted group -100.
C21_Witness ==
    /\ wl_reply.cmd = "status"
    /\ wl_reply.user_id = 8
    /\ wl_reply.chat_id = -100
    /\ wl_reply.text = "status"
    /\ whitelist_enabled
    /\ 8 \notin whitelisted_users
    /\ -100 \in whitelisted_groups

\* The whitelist management commands of haha.py that change the whitelist.
WlManagement ==
    {"whitelist_add_user", "whitelist_remove_user", "whitelist_add_group",
     "whitelist_remove_group", "whitelist_enable", "whitelist_disable"}

\* C22: a command of the bot issued by a non-admin, after any commands before
\* it, leaves the whitelisted users, the whitelisted groups, the enabled flag
\* and the file as they were; if it is a whitelist management command it is
\* answered with the admin-only refusal.
C22_OnlyAdminsChangeWhitelist ==
    [][(/\ wl_reply' # wl_reply
        /\ wl_reply'.cmd # "none"
        /\ wl_reply'.user_id \notin admin_ids)
       => (/\ whitelisted_users' = whitelisted_users
           /\ whitelisted_groups' = whitelisted_groups
           /\ whitelist_enabled' = whitelist_enabled
           /\ whitelist_json' = whitelist_json
           /\ wl_reply'.cmd \in WlManagement => wl_reply'.text = "admin only")]_vars

\* C22 witness: user 8, whom an admin whitelisted, tried to disable the
\* whitelist and was refused; the whitelist is still enabled and on file.
C22_Witness ==
    /\ wl_reply.cmd = "whitelist_disable"
    /\ wl_reply.user_id = 8
    /\ wl_reply.text = "admin only"
    /\ whitelisted_users = {8}
    /\ whitelist_enabled
    /\ whitelist_json # <<>>
    /\ whitelist_json[1].enabled

\* C23: every sleep of the loop (300 s closed, 60 s polling, 60 s back-off)
\* leads back to the gate, the for loop is entered only from a gate that was
\* evaluated open, and a gate evaluated closed is followed by no sample, no
\* append to a history and no alert: those happen only inside the for loop.
C23_GateEveryIteration ==
    [][/\ (pc \in {"sleep_closed", "sleep_interval", "backoff"} /\ pc' # pc)
           => pc' \in {"gate", "ended"}
       /\ (pc' = "for" /\ pc \notin {"for", "send"})
           => (pc = "gate" /\ IsTradingHours(now))
       /\ (pc = "gate" /\ ~IsTradingHours(now))
           => (/\ pc' \in {"gate", "sleep_closed", "backoff"}
               /\ cycles' = cycles)
       /\ pc \notin {"for", "send"}
           => (/\ samples' = samples
               /\ processed' = processed \/ processed' = <<>>
               /\ volume_history' = volume_history
               /\ stock_data' = stock_data
               /\ alert' = alert
               /\ attempts' = attempts)]_vars

\* C23 witness: the loop polled twice before 16:00 and took a sample; the
\* gate evaluated after the second 60-second sleep, at 16:00:00, was closed
\* and the loop is in the 5-minute sleep with two cycles counted.
C23_Witness ==
    /\ pc = "sleep_closed"
    /\ now = LateStart + 2 * monitoring_interval
    /\ ~IsTradingHours(now)
    /\ cycles = 2
    /\ samples >= 1
    /\ volume_history # <<>>

\* C24: an exception that reaches the handler of line 689 puts the loop into
\* the back-off sleep without sampling anything; the back-off sleep lasts 60
\* seconds, samples nothing, and ends at the gate (or with the task cancelled),
\* so the gate is evaluated before any instrument is sampled again.
C24_BackoffThenGate ==
    [][/\ failures' = failures + 1
           => (/\ pc' = "backoff"
               /\ now' = now
               /\ samples' = samples
               /\ cycles' = cycles
               /\ volume_history' = volume_history
               /\ processed' = processed)
       /\ pc = "backoff"
           => (/\ samples' = samples
               /\ cycles' = cycles
               /\ volume_history' = volume_history
               /\ alert' = alert
               /\ pc' # pc => \/ pc' = "gate" /\ now' = now + 60
                              \/ pc' = "ended" /\ monitor_task' = Cancelled)]_vars

\* C24 witness: after one polling cycle an exception was raised while the
\* session was open; the loop slept the back-off, found the gate closed at
\* 16:00:00 and started no second cycle.
C24_Witness ==
    /\ failures = 1
    /\ cycles = 1
    /\ pc = "sleep_closed"
    /\ now = LateStart + monitoring_interval + BackoffSleep
    /\ ~IsTradingHours(now)
    /\ IsTradingHours(now - BackoffSleep)

\* C25: the history after the append of the loop body is the previous history
\* restricted to the entries recorded at or after t - 4 hours, each unaltered
\* and in its previous relative order, followed by the new entry; also for a
\* previous history whose timestamps are not in order.
C25_AppendKeepsOrder ==
    fn_pc = "monitor_step" =>
        LET after == fn_out.vh[FnSymbol]
            survivors == {i \in 1..Len(FnHistory) : FnHistory[i][1] >= FnNow - 4 * 3600}
            \* the position in `after` of the survivor at position i of the previous history
            rank(i) == Cardinality({j \in survivors : j <= i})
        IN /\ Len(after) = Cardinality(survivors) + 1
           /\ \A i \in survivors : after[rank(i)] = FnHistory[i]
           /\ after[Len(after)] = <<FnNow, fn_in.volume>>

\* C25 witness: a history recorded out of order, whose middle entry is older
\* than 4 hours, after the append of 95000: the first and the third entry
\* survive in that order, followed by the new entry.
C25_Witness ==
    /\ fn_pc = "monitor_step"
    /\ fn_in.volume = 95000
    /\ FnHistory = << <<FnNow - 3600, 10000>>, <<FnNow - 14401, 100000>>, <<FnNow - 7200, 0>> >>
    /\ fn_out.vh[FnSymbol]
          = << <<FnNow - 3600, 10000>>, <<FnNow - 7200, 0>>, <<FnNow, 95000>> >>

\* C26: no command (start, add_stock, remove_stock, list_stocks, status)
\* changes a volume history; a history changes only in a step of the for loop
\* that took one sample, and then only the history of the instrument the
\* iterator yielded; while a loop body is suspended in a broadcast no history
\* changes, so no second append starts before the first body has ended.
C26_LoopIsSoleWriter ==
    [][/\ cmds' # cmds => volume_history' = volume_history
       /\ pc = "send" => volume_history' = volume_history
       /\ volume_history' # volume_history
           => (/\ pc = "for"
               /\ it < Len(popular_stocks)
               /\ samples' = samples + 1
               /\ cmds' = cmds
               /\ \A symbol \in DOMAIN volume_history' :
                     symbol # popular_stocks[it + 1]
                        => (/\ symbol \in DOMAIN volume_history
                            /\ volume_history'[symbol] = volume_history[symbol]))]_vars

\* C26 witness: while the broadcast for an instrument with two history
\* entries is suspended in a send, two commands were handled, the last one a
\* list_stocks, and the two entries are in place.
C26_Witness ==
    /\ pc = "send"
    /\ cmds = 2
    /\ reply = "list"
    /\ cur.symbol \in DOMAIN volume_history
    /\ Len(volume_history[cur.symbol]) = 2

\* Whether entry occurs in the history.
InHistory(history, entry) == \E i \in 1..Len(history) : history[i] = entry

\* C27: an entry that is in an instrument's history before a step and not
\* after it was recorded more than 4 hours before the clock reading of that
\* step, and the step is the loop taking a sample of that same instrument; no
\* history and no latest state is ever deleted; and a command (remove_stock
\* among them) leaves every history and every latest state as it was.
C27_OnlyPruningRemovesEntries ==
    [][/\ \A symbol \in DOMAIN volume_history :
             /\ symbol \in DOMAIN volume_history'
             /\ \A i \in 1..Len(volume_history[symbol]) :
                   ~InHistory(volume_history'[symbol], volume_history[symbol][i])
                      => (/\ pc = "for"
                          /\ it < Len(popular_stocks)
                          /\ popular_stocks[it + 1] = symbol
                          /\ samples' = samples + 1
                          /\ volume_history[symbol][i][1] < now - 4 * 3600)
       /\ \A symbol \in DOMAIN stock_data : symbol \in DOMAIN stock_data'
       /\ cmds' # cmds
           => (volume_history' = volume_history /\ stock_data' = stock_data)]_vars

\* C27 witness: the first tracked instrument was sampled (volume 0), removed,
\* added again (it is now last in the list) and sampled again at 95000: its
\* history holds both entries and the alert used the earlier one as baseline.
C27_Witness ==
    /\ cmds = 2
    /\ popular_stocks = << InitStocks[2], InitStocks[1] >>
    /\ InitStocks[1] \in DOMAIN volume_history
    /\ VolumesOf(volume_history[InitStocks[1]]) = <<0, 95000>>
    /\ Timestamp(volume_history[InitStocks[1]][1]) < Timestamp(volume_history[InitStocks[1]][2])
    /\ alert.count = 1
    /\ alert.event.symbol = InitStocks[1]

\* C28: in a broadcast no destination is attempted twice, the attempts made
\* so far are the destinations registered when the broadcast started, in
\* their order and without a gap, and when the broadcast has returned each of
\* those destinations has had its attempt; also when start commands register
\* destinations while the broadcast is suspended.
C28_OneAttemptPerDestination ==
    /\ \A j \in 1..Len(attempts), k \in 1..Len(attempts) :
          attempts[j].dest = attempts[k].dest => j = k
    /\ \A j \in 1..Len(attempts) : j <= Len(bdests) => attempts[j].dest = bdests[j]
    /\ sva_return.state = "returned" =>
          \A i \in 1..Len(bdests) :
             Cardinality({j \in 1..Len(attempts) : attempts[j].dest = bdests[i]}) = 1

\* C28 witness: a broadcast that started with one destination has returned;
\* a second destination was registered while it was suspended in the send to
\* the first; the first destination has exactly one attempt (and the new one
\* was attempted after it).
C28_Witness ==
    /\ sva_return.state = "returned"
    /\ Len(bdests) = 1
    /\ Len(monitored_groups) = 2
    /\ Len(attempts) = 2
    /\ attempts[1].dest = bdests[1]
    /\ attempts[2].dest = monitored_groups[2]

\* The last entry of a non-empty history.
LastEntry(history) == history[Len(history)]

\* C29: a step that takes a sample and ends the body at once stores the sample
\* as the latest state of the instrument; a step that takes a sample and
\* starts a broadcast leaves the latest states alone, and the step in which
\* the broadcast returns stores it, before the iterator moves on; and when a
\* cycle has reached its sleep, every instrument sampled in it has the entry
\* appended in that cycle as its latest state.
C29_LatestStateRecorded ==
    /\ [][/\ (pc = "for" /\ samples' = samples + 1)
              => LET symbol == popular_stocks[it + 1]
                     fresh == LastEntry(volume_history'[symbol])
                 IN /\ Timestamp(fresh) = now
                    /\ pc' = "for" => (/\ symbol \in DOMAIN stock_data'
                                       /\ stock_data'[symbol].symbol = symbol
                                       /\ stock_data'[symbol].volume = Volume(fresh))
                    /\ pc' = "send" => (/\ stock_data' = stock_data
                                        /\ alert'.count = alert.count + 1
                                        /\ cur'.symbol = symbol
                                        /\ cur'.data.volume = Volume(fresh))
          /\ (pc = "send" /\ pc' = "for")
              => (/\ sva_return'.state = "returned"
                  /\ cur.symbol \in DOMAIN stock_data'
                  /\ stock_data'[cur.symbol] = cur.data
                  /\ cur.data.volume = Volume(LastEntry(volume_history'[cur.symbol])))]_vars
    /\ [](pc = "sleep_interval" =>
            \A i \in 1..Len(processed) :
               processed[i] \notin failed =>
                  /\ processed[i] \in DOMAIN stock_data
                  /\ processed[i] \in DOMAIN volume_history
                  /\ Timestamp(LastEntry(volume_history[processed[i]])) = now
                  /\ stock_data[processed[i]].volume
                        = Volume(LastEntry(volume_history[processed[i]])))

\* C29 witness: the second cycle has reached its sleep; in it an alert was
\* dispatched and delivered for a sample of 95000, and that sample is the
\* instrument's latest state and the last entry of its history.
C29_Witness ==
    /\ pc = "sleep_interval"
    /\ cycles = 2
    /\ alert.count = 1
    /\ Len(attempts) >= 1
    /\ alert.event.symbol \in DOMAIN stock_data
    /\ stock_data[alert.event.symbol].volume = 95000
    /\ LastEntry(volume_history[alert.event.symbol]) = <<now, 95000>>

\* The answers that report an input that changes nothing.
NothingToDoReplies == {"already monitored", "not monitored", "already active"}

\* C30: when a caller whose command reaches its handler adds an instrument
\* that is already tracked, removes one that is not tracked, or registers a
\* chat that is already registered, the tracked list and the destination list
\* stay exactly as they were and the answer says so ("already monitored",
\* "not monitored", "already active"); and no command that gave one of these
\* answers changed either list.
C30_InvalidInputChangesNothing ==
    [][/\ \A user_id \in Users :
             WhitelistRequired(user_id) = "run" =>
                /\ \A args \in CmdArgs :
                      (/\ args # <<>>
                       /\ InList(popular_stocks, NormaliseCode(args[1]))
                       /\ AddStockCommand(user_id, args))
                      => (/\ popular_stocks' = popular_stocks
                          /\ monitored_groups' = monitored_groups
                          /\ reply' = "already monitored")
                /\ \A args \in CmdArgs :
                      (/\ args # <<>>
                       /\ ~InList(popular_stocks, NormaliseCode(args[1]))
                       /\ RemoveStockCommand(user_id, args))
                      => (/\ popular_stocks' = popular_stocks
                          /\ monitored_groups' = monitored_groups
                          /\ reply' = "not monitored")
                /\ \A chat_id \in CmdChats :
                      (/\ InList(monitored_groups, chat_id)
                       /\ StartCommand(user_id, chat_id))
                      => (/\ popular_stocks' = popular_stocks
                          /\ monitored_groups' = monitored_groups
                          /\ reply' = "already active")
       /\ (cmds' # cmds /\ reply' \in NothingToDoReplies)
             => (/\ popular_stocks' = popular_stocks
                 /\ monitored_groups' = monitored_groups)]_vars

\* C30 witness: an admin sent start twice in the same chat; the second command
\* was answered "already active" and the chat is registered once; the tracked
\* list is the one of construction.
C30_Witness ==
    /\ cmds = 2
    /\ reply = "already active"
    /\ Len(monitored_groups) = 1
    /\ popular_stocks = InitStocks

C31_SameAverageAndHistory ==
    fn_pc = "both_variants" =>
        /\ fn_out.alert.avg = fn_out.haha.avg
        /\ fn_out.alert.vh = fn_out.haha.vh
        /\ fn_out.alert.fire => fn_out.haha.fire

\* The lower-case letters of the codes the commands are given.
LowerCase == {"a", "b", "c", "j", "k"}

\* A code in upper case that ends in '.JK'.
IsNormalised(code) ==
    /\ EndsWith(code, <<".", "J", "K">>)
    /\ \A i \in 1..Len(code) : code[i] \notin LowerCase

\* No element occurs twice in the list.
NoDuplicates(list) == \A i, j \in 1..Len(list) : list[i] = list[j] => i = j

\* The list without its last element.
Front(list) == SubSeq(list, 1, Len(list) - 1)

\* C32: starting from the duplicate-free tracked list of construction, after
\* any sequence of add_stock / remove_stock commands the list contains no
\* identifier twice and every identifier in it is normalised (upper case with
\* the '.JK' suffix; an argument and its normalised form name the same
\* instrument).  add_stock(x) for an untracked x appends the normalised x and
\* changes nothing else of the list, and remove_stock(x) on the list such an
\* add left (x last, not among the earlier elements) gives back exactly the
\* earlier elements in their order: add followed by remove restores the list.
C32_AddRemoveKeepListClean ==
    /\ [](/\ NoDuplicates(popular_stocks)
          /\ \A i \in 1..Len(popular_stocks) : IsNormalised(popular_stocks[i])
          /\ \A args \in CmdArgs :
                args # <<>> =>
                   /\ IsNormalised(NormaliseCode(args[1]))
                   /\ NormaliseCode(NormaliseCode(args[1])) = NormaliseCode(args[1]))
    /\ [][\A user_id \in Users : \A args \in CmdArgs :
            (args # <<>> /\ WhitelistRequired(user_id) = "run") =>
               LET stock_code == NormaliseCode(args[1])
                   n == Len(popular_stocks)
               IN /\ (~InList(popular_stocks, stock_code) /\ AddStockCommand(user_id, args))
                        => (/\ popular_stocks' = Append(popular_stocks, stock_code)
                            /\ reply' = "added")
                  /\ (/\ n > 0
                      /\ popular_stocks[n] = stock_code
                      /\ ~InList(Front(popular_stocks), stock_code)
                      /\ RemoveStockCommand(user_id, args))
                        => (/\ popular_stocks' = Front(popular_stocks)
                            /\ reply' = "removed")]_vars

\* C32 witness: the second of two commands was a remove_stock that succeeded
\* and the list is again the one of construction, so the first command added
\* the code the second removed.
C32_Witness ==
    /\ cmds = 2
    /\ reply = "removed"
    /\ popular_stocks = InitStocks

\* The entries of the history of FnSymbol that calculate_average_volume
\* averages when the clock reads t.
WindowAt(vh, t, window_minutes) ==
    SelectSeq(HistoryOf(vh, FnSymbol),
              LAMBDA e : Timestamp(e) >= t - window_minutes * 60)

\* The seconds by which the clock readings of should_alert and of the second
\* calculate_average_volume can be later than the reading of the append.
C33_Drifts == {d2 + d3 : d2 \in ReadDrift, d3 \in ReadDrift}

\* C33: the loop appends the fresh sample before it computes the average, so
\* (volumes being non-negative) the ratio fresh volume / windowed average that
\* it evaluates never exceeds the number of samples in the averaging window,
\* whenever the clock is read; the ratio handed on with an alert is one of
\* these; and when the window holds exactly two samples, an alert at threshold
\* 2.0 fires only if the earlier sample's volume is 0.
C33_RatioAtMostWindowSize ==
    fn_pc = "monitor_step" =>
       LET w == fn_in.window_minutes
           avg(d) == CalculateAverageVolume(fn_out.vh, FnSymbol, FnNow + d, w)
           n(d) == Len(WindowAt(fn_out.vh, FnNow + d, w))
           bounded(d) == /\ avg(d).num # 0
                         /\ RatGeq([num |-> n(d), den |-> 1], RatDiv(fn_in.volume, avg(d)))
       IN /\ \A d \in C33_Drifts : avg(d).num # 0 => bounded(d)
          /\ fn_out.fire =>
                \E d \in C33_Drifts :
                   /\ bounded(d)
                   /\ fn_out.volume_ratio = RatDiv(fn_in.volume, avg(d))
          /\ (/\ fn_out.fire
              /\ fn_in.threshold = [num |-> 2, den |-> 1]
              /\ \A d \in C33_Drifts : n(d) = 2)
                => Volume(WindowAt(fn_out.vh, FnNow, w)[1]) = 0

\* C33 witness: the loop body found one recorded sample of volume 0, appended
\* a fresh one, and alerted at threshold 2.0 with a ratio of exactly 2 over a
\* window of two samples.
C33_Witness ==
    /\ fn_pc = "monitor_step"
    /\ fn_out.fire
    /\ fn_in.threshold = [num |-> 2, den |-> 1]
    /\ Len(WindowAt(fn_out.vh, FnNow, fn_in.window_minutes)) = 2
    /\ Volume(WindowAt(fn_out.vh, FnNow, fn_in.window_minutes)[1]) = 0
    /\ fn_out.volume_ratio.num = 2 * fn_out.volume_ratio.den

\* The methods of WhitelistManager that add or remove an id.
C34_ListOps == {"add_user", "remove_user", "add_group", "remove_group"}

\* The step is an invocation of the utility that called one of the methods
\* ops (a command of the bot records its answer, a start of the bot records
\* itself as the last to touch the file).
ManagerCalled(ops) ==
    /\ wl_ops' # wl_ops
    /\ wl_reply' = wl_reply
    /\ wl_last'.by = "manager"
    /\ wl_last'.op \in ops

\* C34: add_user / add_group / remove_user / remove_group return True exactly
\* when they changed the list and leave the list untouched when they return
\* False; from a duplicate-free file no id ever appears twice; and every
\* change has been written to the whitelist file before the call returns.
C34_AsClaimed ==
    [][ManagerCalled(C34_ListOps)
       => LET before == ManagerLoad(whitelist_json, wl_ops + 1)
              after == manager_data'[1]
              changed == after.users # before.users \/ after.groups # before.groups
          IN /\ (wl_last'.returned = "True") <=> changed
             /\ wl_last'.returned = "False" => ~changed
             /\ NoDuplicates(after.users) /\ NoDuplicates(after.groups)
             /\ changed => /\ whitelist_json' # <<>>
                           /\ whitelist_json'[1].users = after.users
                           /\ whitelist_json'[1].groups = after.groups]_vars

\* What holds of the four methods on every file: no id appears twice, False
\* is returned only when nothing changed, and True only after the change was
\* written; and on a file that has the key 'metadata' all of C34 holds.
C34_HoldsWithMetadata ==
    [][ManagerCalled(C34_ListOps)
       => LET before == ManagerLoad(whitelist_json, wl_ops + 1)
              after == manager_data'[1]
              changed == after.users # before.users \/ after.groups # before.groups
              written == /\ whitelist_json' # <<>>
                         /\ whitelist_json'[1].users = after.users
                         /\ whitelist_json'[1].groups = after.groups
          IN /\ NoDuplicates(after.users) /\ NoDuplicates(after.groups)
             /\ wl_last'.returned = "False" => ~changed
             /\ wl_last'.returned = "True" => changed /\ written
             /\ "metadata" \in DOMAIN before =>
                   /\ (wl_last'.returned = "True") <=> changed
                   /\ changed => written]_vars

\* The issues of validate_whitelist about duplicates and invalid ids.
C35_IdIssues ==
    {<<"Duplicate users found", "">>, <<"Duplicate groups found", "">>,
     <<"Invalid user ID", "">>, <<"Invalid group ID", "">>}

\* The last call of the utility was a clean_whitelist that completed.
C35_JustCleaned == wl_last.op = "clean_whitelist" /\ wl_last.error = "none"

\* C35: after clean_whitelist on data that has the required keys, the users
\* list holds exactly the distinct positive integer ids of the previous list
\* and the groups list exactly the distinct integer ids (each once), and the
\* file holds these lists; a validate_whitelist that follows reports no
\* duplicate and no invalid-id issue; and a second clean_whitelist changes
\* neither set of ids.
C35_CleanLeavesValidIds ==
    [][LET before == ManagerLoad(whitelist_json, wl_ops + 1)
           after == manager_data'[1]
       IN /\ (/\ ManagerCalled({"clean_whitelist"})
              /\ {"users", "groups", "enabled", "metadata"} \subseteq DOMAIN before)
             => /\ wl_last'.error = "none"
                /\ NoDuplicates(after.users)
                /\ NoDuplicates(after.groups)
                /\ Range(after.users) =
                      {v \in Range(before.users) : "int" \in DOMAIN v /\ v.int > 0}
                /\ Range(after.groups) = {v \in Range(before.groups) : "int" \in DOMAIN v}
                /\ whitelist_json'[1].users = after.users
                /\ whitelist_json'[1].groups = after.groups
          /\ (ManagerCalled({"validate_whitelist"}) /\ C35_JustCleaned)
             => wl_last'.issues \cap C35_IdIssues = {}
          /\ (ManagerCalled({"clean_whitelist"}) /\ C35_JustCleaned)
             => /\ Range(after.users) = Range(before.users)
                /\ Range(after.groups) = Range(before.groups)]_vars

\* C35 witness: the file was found with users [8, "x", 8] and groups
\* ["g", -100]; it now holds users [8] and groups [-100], and the
\* validate_whitelist that ran last reported no issue.
C35_Witness ==
    /\ fn_in.users = <<JInt(8), JStr("x"), JInt(8)>>
    /\ fn_in.groups = <<JStr("g"), JInt(-100)>>
    /\ whitelist_json[1].users = <<JInt(8)>>
    /\ whitelist_json[1].groups = <<JInt(-100)>>
    /\ wl_last.op = "validate_whitelist"
    /\ wl_last.returned = "True"

====
